---- MODULE Spec2Model ----
\* Stream247_GUI.py: the StreamWorker relay loop (run / run_one_video), the
\* prefetch thread, the GUI thread's stop() / skip() calls and the ffmpeg child
\* processes, as one state machine.  Three execution contexts interleave:
\*   W  the QThread that executes StreamWorker.run
\*   G  the GUI thread, which calls StreamWorker.stop / skip directly
\*   P  the daemon thread started by prefetch_next_video
\* Every read or write of a field shared between two contexts is its own step.
EXTENDS Integers, Sequences, FiniteSets, TLC

VARIABLES
    rtmp_base,          \* cfg.rtmp_base, a sequence of URL tokens
    stream_key,         \* cfg.stream_key, a sequence of URL tokens
    shuffle,            \* cfg.shuffle
    ffmpeg_path,        \* TRUE iff find_ffmpeg() located the binary
    ytdlp_path,         \* TRUE iff find_ytdlp() located the binary
    fps,                \* cfg.fps
    overlay_titles,     \* cfg.overlay_titles
    encoder,            \* cfg.encoder
    encoder_name,       \* cfg.encoder_name
    pix_fmt,            \* cfg.pix_fmt
    extra_venc_flags,   \* cfg.extra_venc_flags (<< >> for None)
    probed,             \* history: the codecs ffprobe_encoder was called for, in order
    ladder,             \* one _terminate_ff_proc call on one process, step by step
    urls,               \* one get_stream_urls call, strategy by strategy
    call,               \* one call of a function followed on its own: arguments and result
    probes,             \* the codecs for which ffprobe_encoder returns True
    meta,               \* title and formatted date get_metadata returns (a date of << >> is None)
    window,             \* MainWindow: rtmp_edit and key_edit texts, _fps, overlay_chk, shuffle_chk
    stop_ev,            \* self._stop (threading.Event)
    skip_ev,            \* self._skip (threading.Event)
    ff_proc,            \* self.ff_proc: None or a process id
    pf_video_id,        \* self._prefetch_video_id
    pf_title,           \* self._prefetch_title
    pf_date,            \* self._prefetch_date
    pf_vurl,            \* self._prefetch_vurl
    pf_aurl,            \* self._prefetch_aurl
    wpc,                \* W: position in run / run_one_video
    ids,                \* W: the list being iterated (after the shuffle)
    idx,                \* W: 1-based position in ids
    tick,               \* W: iterations done of a 30-tick backoff loop
    loc,                \* W: run_one_video locals title, pretty_date, vurl, aurl, out_url
    wproc,              \* W: local proc of _terminate_ff_proc, the Popen result not yet stored, or the process whose streams are read
    gpc,                \* G: position in stop / skip
    gproc,              \* G: local proc of _terminate_ff_proc
    streaming,          \* MainWindow.streaming
    stop_btn,           \* MainWindow.stop_btn enabled (skip_btn is enabled with it)
    ppc,                \* P: position in _fetch ("dead" when no thread is alive)
    p_vid,              \* P: video_id captured by _fetch
    alive,              \* ids of the ffmpeg child processes that are running
    status,             \* values emitted on the status signal, in order
    finished,           \* number of times the finished signal was emitted
    fetches,            \* number of get_video_ids calls made
    skips,              \* number of Skip presses made
    fetched,            \* history: the list as get_video_ids returned it
    visited,            \* history: identifiers passed to run_one_video in this pass
    pushes,             \* history: URLs the preflight pushed to, in order
    lastPrime,          \* history: identifier of the latest prefetch_next_video call
    hist                \* history: facts recorded for the properties below

vars == << rtmp_base, stream_key, shuffle, ffmpeg_path, ytdlp_path,
           fps, overlay_titles, encoder, encoder_name, pix_fmt, extra_venc_flags,
           probed, ladder, urls, call, probes, meta, window, stop_ev, skip_ev,
           ff_proc, pf_video_id, pf_title, pf_date, pf_vurl, pf_aurl,
           wpc, ids, idx, tick, loc, wproc, gpc, gproc, streaming, stop_btn,
           ppc, p_vid, alive, status, finished, fetches, skips,
           fetched, visited, pushes, lastPrime, hist >>

envVars   == << fps, overlay_titles, probes, meta, window >>
encVars   == << encoder, encoder_name, pix_fmt, extra_venc_flags, probed >>
auxVars   == << ladder, urls, call >>
cfgVars   == << rtmp_base, stream_key, shuffle, ffmpeg_path, ytdlp_path, encVars, envVars,
                auxVars >>
cacheVars == << pf_video_id, pf_title, pf_date, pf_vurl, pf_aurl >>
loopVars  == << ids, idx, tick, fetches, fetched, visited >>
guiVars   == << gpc, gproc, streaming, stop_btn, skips >>
pVars     == << ppc, p_vid >>
\* everything but the two calls followed step by step
mainVars == << rtmp_base, stream_key, shuffle, ffmpeg_path, ytdlp_path, encVars, envVars,
               stop_ev, skip_ev, ff_proc, cacheVars, loopVars, wpc, loc, wproc, guiVars,
               pVars, alive, status, finished, pushes, lastPrime, hist >>

\* ---------------------------------------------------------------- bounds
MaxFetches == 1     \* get_video_ids calls followed when one pass shows the case
QuietFetches == 2   \* get_video_ids calls followed when the case needs a later pass
MaxSkips == 1       \* Skip presses of a run
RepeatSkips == 2    \* Skip presses of a run in which Skip is pressed again
TrioFetches == 1    \* get_video_ids calls of a run over the playlist [a, b, c]
MaxRuns == 2        \* StreamWorker objects created by Start presses

\* ---------------------------------------------------------------- values
None == "None"
Ids == {"a", "b", "c"}

\* The lists get_video_ids can return (the playlist may change between passes).
TrioPlaylists == { << "a", "b", "c" >> }
SoloPlaylists == { << >>, << "a" >> }
RunPlaylists == { << "a" >> }
Playlists == { << >>, <<"a", "b">>, <<"b", "a">> }
PairPlaylists == { << >>, <<"a", "b">> }

\* ------------------------------------------------------- texts
\* A text (a str of the source) is the sequence of its characters. A character the
\* strings here cannot hold is written by its escape in the source language:
\* "\\x0b" is the one character U+000B, "\\u3000" the one character U+3000.
LowerLetters ==
    << "a", "b", "c", "d", "e", "f", "g", "h", "i", "j", "k", "l", "m", "n", "o", "p", "q",
       "r", "s", "t", "u", "v", "w", "x", "y", "z" >>
UpperLetters ==
    << "A", "B", "C", "D", "E", "F", "G", "H", "I", "J", "K", "L", "M", "N", "O", "P", "Q",
       "R", "S", "T", "U", "V", "W", "X", "Y", "Z" >>
Digits == << "0", "1", "2", "3", "4", "5", "6", "7", "8", "9" >>
Elems(s) == { s[i] : i \in 1..Len(s) }
\* str.lower() of a text of ASCII characters
lower_char(c) ==
    IF c \in Elems(UpperLetters)
    THEN LowerLetters[CHOOSE i \in 1..26 : UpperLetters[i] = c]
    ELSE c
Lower(t) == [i \in 1..Len(t) |-> lower_char(t[i])]

\* str.find(c, start) and str.rfind(c) as 1-based indices: the first occurrence of
\* the character c at or after start / the last occurrence, 0 when there is none
find(t, c, start) ==
    IF \E i \in start..Len(t) : t[i] = c
    THEN CHOOSE i \in start..Len(t) : t[i] = c /\ \A j \in start..(i-1) : t[j] # c
    ELSE 0
rfind(t, c) ==
    IF \E i \in 1..Len(t) : t[i] = c
    THEN CHOOSE i \in 1..Len(t) : t[i] = c /\ \A j \in (i+1)..Len(t) : t[j] # c
    ELSE 0
\* t[k:] for a 1-based k
from(t, k) == SubSeq(t, k, Len(t))
\* str.lstrip(chars)
lstrip(t, chars) ==
    IF \A i \in 1..Len(t) : t[i] \in chars THEN << >>
    ELSE from(t, CHOOSE i \in 1..Len(t) :
                    t[i] \notin chars /\ \A j \in 1..(i-1) : t[j] \in chars)
\* the characters of chars taken out of t (str.replace(b, "") for every b)
without(t, chars) ==
    LET kept(c) == c \notin chars IN SelectSeq(t, kept)

\* ------------------------------------------------------- URL strings
\* StreamConfig.rtmp_url
rtmp_url(base, key) == base \o << "/" >> \o key

\* urllib.parse: the characters urlsplit strips from the left and takes out, the
\* characters of a scheme, and the schemes that have parameters / a netloc
WHATWG_C0_CONTROL_OR_SPACE ==
    { "\\x00", "\\x01", "\\x02", "\\x03", "\\x04", "\\x05", "\\x06", "\\x07", "\\x08", "\t",
      "\n", "\\x0b", "\f", "\r", "\\x0e", "\\x0f", "\\x10", "\\x11", "\\x12", "\\x13", "\\x14",
      "\\x15", "\\x16", "\\x17", "\\x18", "\\x19", "\\x1a", "\\x1b", "\\x1c", "\\x1d", "\\x1e",
      "\\x1f", " " }
UNSAFE_URL_BYTES_TO_REMOVE == { "\t", "\r", "\n" }
scheme_chars == Elems(LowerLetters) \cup Elems(UpperLetters) \cup Elems(Digits) \cup { "+", "-", "." }
uses_params ==
    { << >>,
      << "f", "t", "p" >>,
      << "h", "d", "l" >>,
      << "p", "r", "o", "s", "p", "e", "r", "o" >>,
      << "h", "t", "t", "p" >>,
      << "i", "m", "a", "p" >>,
      << "h", "t", "t", "p", "s" >>,
      << "s", "h", "t", "t", "p" >>,
      << "r", "t", "s", "p" >>,
      << "r", "t", "s", "p", "s" >>,
      << "r", "t", "s", "p", "u" >>,
      << "s", "i", "p" >>,
      << "s", "i", "p", "s" >>,
      << "m", "m", "s" >>,
      << "s", "f", "t", "p" >>,
      << "t", "e", "l" >> }
uses_netloc ==
    { << >>,
      << "f", "t", "p" >>,
      << "h", "t", "t", "p" >>,
      << "g", "o", "p", "h", "e", "r" >>,
      << "n", "n", "t", "p" >>,
      << "t", "e", "l", "n", "e", "t" >>,
      << "i", "m", "a", "p" >>,
      << "w", "a", "i", "s" >>,
      << "f", "i", "l", "e" >>,
      << "m", "m", "s" >>,
      << "h", "t", "t", "p", "s" >>,
      << "s", "h", "t", "t", "p" >>,
      << "s", "n", "e", "w", "s" >>,
      << "p", "r", "o", "s", "p", "e", "r", "o" >>,
      << "r", "t", "s", "p" >>,
      << "r", "t", "s", "p", "s" >>,
      << "r", "t", "s", "p", "u" >>,
      << "r", "s", "y", "n", "c" >>,
      << "s", "v", "n" >>,
      << "s", "v", "n", "+", "s", "s", "h" >>,
      << "s", "f", "t", "p" >>,
      << "n", "f", "s" >>,
      << "g", "i", "t" >>,
      << "g", "i", "t", "+", "s", "s", "h" >>,
      << "w", "s" >>,
      << "w", "s", "s" >> }

\* str.split(c): the texts between the occurrences of the character c
split(t, c) ==
    LET at == { i \in 1..Len(t) : t[i] = c }
        n  == Cardinality(at)
        \* the place of the k-th c; 0 and Len(t) + 1 stand for the two ends
        place(k) == IF k = 0 THEN 0
                    ELSE IF k = n + 1 THEN Len(t) + 1
                    ELSE CHOOSE i \in at : Cardinality({ j \in at : j <= i }) = k
    IN  [k \in 1..(n + 1) |-> SubSeq(t, place(k - 1) + 1, place(k) - 1)]

\* ipaddress._BaseV4._parse_octet and _ip_int_from_string: whether the text is an
\* IPv4 address
DecimalValue(t) ==
    LET d(c) == (CHOOSE i \in 1..10 : Digits[i] = c) - 1
    IN  IF Len(t) = 1 THEN d(t[1])
        ELSE IF Len(t) = 2 THEN 10 * d(t[1]) + d(t[2])
        ELSE 100 * d(t[1]) + 10 * d(t[2]) + d(t[3])
is_octet(t) ==
    /\ t # << >>
    /\ Elems(t) \subseteq Elems(Digits)
    /\ Len(t) <= 3
    /\ (t = << "0" >> \/ t[1] # "0")
    /\ DecimalValue(t) <= 255
is_ipv4(t) ==
    LET octets == split(t, ".")
    IN  t # << >> /\ Len(octets) = 4 /\ \A i \in 1..4 : is_octet(octets[i])

\* ipaddress._BaseV6._parse_hextet, _split_scope_id and _ip_int_from_string: whether
\* the text is an IPv6 address
HEX_DIGITS ==
    Elems(Digits) \cup { "a", "b", "c", "d", "e", "f", "A", "B", "C", "D", "E", "F" }
is_hextet(t) == Elems(t) \subseteq HEX_DIGITS /\ Len(t) <= 4 /\ t # << >>
is_ipv6(t) ==
    LET p     == find(t, "%", 1)
        addr  == IF p = 0 THEN t ELSE SubSeq(t, 1, p - 1)
        scope == IF p = 0 THEN << >> ELSE from(t, p + 1)
        parts0 == split(addr, ":")
        last0 == parts0[Len(parts0)]
        v4    == "." \in Elems(last0)
        \* an IPv4 suffix is replaced by the two hextets it stands for
        parts == IF v4 THEN SubSeq(parts0, 1, Len(parts0) - 1) \o << << "0" >>, << "0" >> >>
                 ELSE parts0
        n     == Len(parts)
        gaps == { i \in 2..(n - 1) : parts[i] = << >> }
        gap  == CHOOSE i \in gaps : TRUE
        hi0   == gap - 1
        lo0   == n - gap
        hi    == IF parts[1] = << >> THEN hi0 - 1 ELSE hi0
        lo    == IF parts[n] = << >> THEN lo0 - 1 ELSE lo0
    IN  /\ "/" \notin Elems(t)
        /\ p # 0 => (scope # << >> /\ "%" \notin Elems(scope))
        /\ addr # << >>
        /\ Len(parts0) >= 3
        /\ v4 => is_ipv4(last0)
        /\ n <= 8 + 1
        /\ Cardinality(gaps) <= 1
        /\ IF gaps # {}
           THEN /\ parts[1] = << >> => hi = 0
                /\ parts[n] = << >> => lo = 0
                /\ 8 - (hi + lo) >= 1
                /\ \A i \in 1..hi : is_hextet(parts[i])
                /\ \A i \in (n - lo + 1)..n : is_hextet(parts[i])
           ELSE /\ n = 8
                /\ \A i \in 1..n : is_hextet(parts[i])

\* urllib.parse._check_bracketed_host: whether the host in brackets passes, as an
\* IPvFuture address (v, hexadecimal digits, a dot, more text) or an IPv6 address
check_bracketed_host(hostname) ==
    IF hostname # << >> /\ hostname[1] = "v"
    THEN \E k \in 3..(Len(hostname) - 1) :
            /\ hostname[k] = "."
            /\ \A j \in 2..(k - 1) : hostname[j] \in HEX_DIGITS
    ELSE is_ipv6(hostname)

\* urllib.parse._checknetloc: the characters whose NFKC form holds one of / ? # @ :
NFKC_DELIMITED ==
    { "\\u2047", "\\u2048", "\\u2049", "\\u2100", "\\u2101", "\\u2105", "\\u2106", "\\u2a74",
      "\\ufe13", "\\ufe16", "\\ufe55", "\\ufe56", "\\ufe5f", "\\ufe6b", "\\uff03", "\\uff0f",
      "\\uff1a", "\\uff1f", "\\uff20" }

ValueError == [raised |-> "ValueError"]
\* urllib.parse.urlsplit: the five components, or ValueError. The statements of the
\* function follow one another as in the source: each group works on the values the
\* group before it has computed (x ranges over the one value handed on).
urlsplit(url0) ==
    LET \* the fragment, the query and the checks of the netloc
        tail(p) ==
            LET scheme == p[1]
                netloc == p[2]
                url3   == p[3]
                h      == find(url3, "#", 1)
                url4   == IF h = 0 THEN url3 ELSE SubSeq(url3, 1, h - 1)
                frag   == IF h = 0 THEN << >> ELSE from(url3, h + 1)
                q      == find(url4, "?", 1)
                path   == IF q = 0 THEN url4 ELSE SubSeq(url4, 1, q - 1)
                query  == IF q = 0 THEN << >> ELSE from(url4, q + 1)
                open   == find(netloc, "[", 1)
                inner  == from(netloc, open + 1)
                close  == find(inner, "]", 1)
                bracketed_host == IF close = 0 THEN inner ELSE SubSeq(inner, 1, close - 1)
            IN  IF ("[" \in Elems(netloc)) # ("]" \in Elems(netloc)) THEN ValueError
                ELSE IF "[" \in Elems(netloc) /\ ~check_bracketed_host(bracketed_host)
                     THEN ValueError
                ELSE IF Elems(netloc) \cap NFKC_DELIMITED # {} THEN ValueError
                ELSE [scheme |-> scheme, netloc |-> netloc, path |-> path,
                      query |-> query, fragment |-> frag]
        \* the netloc: after "//", up to the first of / ? #
        net(p) ==
            LET url2   == p[2]
                hasNet == Len(url2) >= 2 /\ url2[1] = "/" /\ url2[2] = "/"
                ends   == { find(url2, c, 3) : c \in { "/", "?", "#" } } \ { 0 }
                delim  == IF ends = {} THEN Len(url2) + 1
                          ELSE CHOOSE d \in ends : \A e \in ends : d <= e
                netloc == IF hasNet THEN SubSeq(url2, 3, delim - 1) ELSE << >>
                url3   == IF hasNet THEN from(url2, delim) ELSE url2
            IN  CHOOSE r \in { tail(x) : x \in { << p[1], netloc, url3 >> } } : TRUE
        \* the scheme: the text before the first colon, when it is one
        sch(url1) ==
            LET i      == find(url1, ":", 1)
                found  == /\ i > 1
                          /\ url1[1] \in Elems(LowerLetters) \cup Elems(UpperLetters)
                          /\ \A k \in 1..(i-1) : url1[k] \in scheme_chars
                scheme == IF found THEN Lower(SubSeq(url1, 1, i - 1)) ELSE << >>
                url2   == IF found THEN from(url1, i + 1) ELSE url1
            IN  CHOOSE r \in { net(x) : x \in { << scheme, url2 >> } } : TRUE
    IN  CHOOSE r \in { sch(x) : x \in { without(lstrip(url0, WHATWG_C0_CONTROL_OR_SPACE),
                                                UNSAFE_URL_BYTES_TO_REMOVE) } } : TRUE

\* urllib.parse._splitparams
splitparams(url) ==
    LET s == rfind(url, "/")
        i == IF s = 0 THEN find(url, ";", 1) ELSE find(url, ";", s)
    IN  IF i = 0 THEN IF s = 0 THEN << SubSeq(url, 1, Len(url) - 1), url >>
                      ELSE << url, << >> >>
        ELSE << SubSeq(url, 1, i - 1), from(url, i + 1) >>

\* urllib.parse.urlparse: urlsplit, then the parameters of the last path segment for
\* a scheme that has them
urlparse(url) ==
    LET parsed(r) ==
            IF r = ValueError THEN ValueError
            ELSE IF r.scheme \in uses_params /\ ";" \in Elems(r.path)
                 THEN [scheme |-> r.scheme, netloc |-> r.netloc,
                       path |-> splitparams(r.path)[1], params |-> splitparams(r.path)[2],
                       query |-> r.query, fragment |-> r.fragment]
                 ELSE [scheme |-> r.scheme, netloc |-> r.netloc, path |-> r.path,
                       params |-> << >>, query |-> r.query, fragment |-> r.fragment]
    IN  CHOOSE u \in { parsed(x) : x \in { urlsplit(url) } } : TRUE

\* urllib.parse.urlunparse and urlunsplit
urlunparse(scheme, netloc, path, params, query, fragment) ==
    LET url1 == IF params # << >> THEN path \o << ";" >> \o params ELSE path
        net  == \/ netloc # << >>
                \/ /\ scheme # << >> /\ scheme \in uses_netloc
                   /\ ~(Len(url1) >= 2 /\ url1[1] = "/" /\ url1[2] = "/")
        url2 == IF ~net THEN url1
                ELSE << "/", "/" >> \o netloc
                       \o (IF url1 # << >> /\ url1[1] # "/" THEN << "/" >> ELSE << >>)
                       \o url1
        url3 == IF scheme # << >> THEN scheme \o << ":" >> \o url2 ELSE url2
        url4 == IF query # << >> THEN url3 \o << "?" >> \o query ELSE url3
    IN  IF fragment # << >> THEN url4 \o << "#" >> \o fragment ELSE url4

\* str.partition(":")[0]
partition_host(netloc) ==
    LET c == find(netloc, ":", 1)
    IN  IF c = 0 THEN netloc ELSE SubSeq(netloc, 1, c - 1)

Rtmp == << "r", "t", "m", "p" >>
Rtmps == << "r", "t", "m", "p", "s" >>
\* lines 622-626: the rtmps URL preflight_rtmp builds from a parsed rtmp URL
rtmps_fallback_url(u) ==
    LET host       == partition_host(u.netloc)
        new_netloc == IF host # << >> THEN host \o << ":", "4", "4", "3" >> ELSE u.netloc
    IN  urlunparse(Rtmps, new_netloc, u.path, u.params, u.query, u.fragment)

\* str.split("/", 1)[0] in place of str.rsplit("/", 1)[0]
split_head(s) ==
    LET k == find(s, "/", 1) IN IF k = 0 THEN s ELSE SubSeq(s, 1, k - 1)

\* str.rsplit("/", 1)[0] and [-1]
rsplit_head(s) ==
    LET k == rfind(s, "/") IN IF k = 0 THEN s ELSE SubSeq(s, 1, k - 1)
rsplit_tail(s) ==
    LET k == rfind(s, "/") IN IF k = 0 THEN s ELSE from(s, k + 1)

\* the host of a netloc as a URL reader understands it: after the credentials, before the port
HostOf(netloc) ==
    LET at   == rfind(netloc, "@")
        hp   == IF at = 0 THEN netloc ELSE from(netloc, at + 1)
        close == find(hp, "]", 1)
    IN  IF hp # << >> /\ hp[1] = "[" /\ close # 0 THEN SubSeq(hp, 1, close)
        ELSE partition_host(hp)

\* the (rtmp_base, stream_key) pairs a run can be configured with
Endpoints ==
    { [base |-> << "r", "t", "m", "p", ":", "/", "/", "h", "o", "s", "t", "/", "l", "i", "v", "e", "2" >>,
       key |-> << "k", "e", "y" >>],
      [base |-> << "r", "t", "m", "p", ":", "/", "/", "h", "o", "s", "t", ":", "1", "9", "3", "5", "/", "l", "i", "v", "e", "2" >>,
       key |-> << "k", "e", "y" >>],
      [base |-> << "r", "t", "m", "p", "s", ":", "/", "/", "h", "o", "s", "t", "/", "l", "i", "v", "e", "2" >>,
       key |-> << "k", "e", "y" >>],
      [base |-> << "r", "T", "m", "p", ":", "/", "/", "h", "o", "s", "t", "/", "l", "i", "v", "e", "2" >>,
       key |-> << "k", "1", "/", "k", "2" >>],
      [base |-> << "r", "t", "m", "p", ":", "/", "/", "u", "s", "e", "r", ":", "p", "w", "@", "h", "o", "s", "t", "/", "l", "i", "v", "e", "2" >>,
       key |-> << "k", "e", "y" >>],
      [base |-> << "h", "t", "t", "p", ":", "/", "/", "h", "o", "s", "t", "/", "l", "i", "v", "e", "2" >>,
       key |-> << "k", "e", "y" >>],
      [base |-> << "1", "9", "2", ".", "1", "6", "8", ".", "1", ".", "5", ":", "1", "9", "3", "5", "/", "l", "i", "v", "e", "2" >>,
       key |-> << "k", "e", "y" >>],
      [base |-> << "r", "t", "m", "p", ":", "/", "/", "h", "o", "s", "t", ":", "/" >>,
       key |-> << "k", "e", "y" >>],
      [base |-> << "r", "t", "m", "p", ":", "/" >>,
       key |-> << "h", "o", "s", "t" >>],
      [base |-> << "r", "t", "m", "p", ":", "/", "/", "[", ":", ":", "1", "]", "/", "l", "i", "v", "e", "2" >>,
       key |-> << "k", "e", "y" >>],
      [base |-> << "r", "t", "m", "p", ":", "/", "/", "[", "h", "o", "s", "t", "/", "l", "i", "v", "e", "2" >>,
       key |-> << "k", "e", "y" >>] }

\* ------------------------------------------------------- configurations
\* the frame rates of MainWindow.fps_combo
Fps == {30, 60}
Chars(n, c) == [i \in 1..n |-> c]
ShortTitle == << "t", "i", "t", "l", "e" >>
\* a date as fmt_yt_date formats it ("%b %-d, %Y")
ShortDate == << "S", "e", "p", " ", "3", ",", " ", "2", "0", "2", "4" >>
\* titles: get_metadata, line 734 (any text of the video's JSON, or the watch URL)
MaxTitle == 80
Titles == { Chars(n, "x") : n \in {0, 10, 72, MaxTitle} }
              \cup { << " ", "x", "\n", "y", " " >>, << "\r", "x", "\n", "\f" >> }
\* dates: None (<< >>) and texts fmt_yt_date returns, the only source of a date
\* (get_metadata, line 735): the shortest, and the longest with 12 characters
EarlyDate == << "J", "a", "n", " ", "1", ",", " ", "1" >>
LongDate == << "S", "e", "p", " ", "3", "0", ",", " ", "2", "0", "2", "4" >>
Dates == { << >>, ShortDate, EarlyDate, LongDate }
Probes == { {}, {"h264_qsv"}, {"h264_nvenc", "h264_amf"} }
Configs == [fps : Fps, overlay_titles : BOOLEAN, probes : Probes,
            meta : [title : Titles, date : Dates]]
DefaultConfig ==
    { [fps |-> 30, overlay_titles |-> TRUE, probes |-> {},
       meta |-> [title |-> ShortTitle, date |-> ShortDate]] }

\* ---------------------------------------------------------------- Init
\* StreamWorker.__init__ followed by MainWindow.on_start's button updates.
\* gen / seen: the prefetch thread whose tag the cache check found equal to / different
\* from video_id; overlay_text: the text written to cfg.title_file for this item
NoLoc == [src |-> None, gen |-> 0, seen |-> 0, title |-> None, pretty_date |-> None, vurl |-> None,
          aurl |-> None, overlay_text |-> << >>, gop |-> 0, keyint_min |-> 0, out_url |-> << >>]
NoProc == << 0, 0 >>
\* pre1: result of the first preflight push; rtmps_ok: the rtmps URL whose push succeeded;
\* pgen: the identifier of each prefetch thread started, in order; tag_gen: the thread
\* that wrote the cache tag (0: none); used: for each use of a cached entry by
\* run_one_video, the thread that wrote its tag and the identifier it was used for; consumed: the entry of the
\* latest prefetch_next_video call was used and cleared; cur: the process launched for the
\* current item; stopHit / skipHit: the process that ran when Stop / Skip was pressed;
\* failed: position of the item that has just failed; phases: the encoder probe, the
\* preflight and the first playlist fetch, in the order they were done; gops: the -g and
\* -keyint_min values of the commands built; events: for this pass, the identifier of each
\* process launched and "cool" for the 2-second sleep that followed it; slept: a 2-second
\* sleep was made for the current item; live: prefetch threads alive;
\* wait: what the current 30-tick wait is for
Cooled(ev) == IF ev # << >> /\ ev[Len(ev)] # "cool" THEN Append(ev, "cool") ELSE ev
NoHist == [pre1 |-> None, rtmps_ok |-> << >>, pgen |-> << >>, tag_gen |-> 0, used |-> << >>,
           consumed |-> FALSE, cur |-> NoProc, stopHit |-> NoProc, skipHit |-> NoProc,
           failed |-> 0, phases |-> << >>, gops |-> {}, codecs |-> {}, events |-> << >>,
           slept |-> FALSE,
           live |-> 0, wait |-> "none", stop_calls |-> 0, again |-> "none",
           outcomes |-> << >>, tested |-> << >>, skipAt |-> "none",
           workers |-> 1, ignored |-> FALSE]

\* no _terminate_ff_proc call and no get_stream_urls call is followed step by step
NoLadder == [pc |-> "off", present |-> FALSE, running |-> FALSE, dies |-> "never",
             win |-> FALSE, steps |-> << >>, log |-> << >>]
NoResult == [kind |-> "none", video |-> None, audio |-> None]
NoUrls == [pc |-> "off", k |-> 0, calls |-> << >>, result |-> NoResult]
NoCall == [fn |-> "none"]
NoAux == ladder = NoLadder /\ urls = NoUrls /\ call = NoCall

\* a StreamWorker just constructed: W is about to execute `entry`
InitAt(E, Sh, Bin, Cfg, entry, st) ==
    /\ \E e \in E : rtmp_base = e.base /\ stream_key = e.key
    /\ shuffle \in Sh
    /\ \E b \in Bin : ffmpeg_path = b[1] /\ ytdlp_path = b[2]
    /\ \E c \in Cfg : /\ fps = c.fps /\ overlay_titles = c.overlay_titles
                       /\ probes = c.probes /\ meta = c.meta
    \* the configuration was made from the window (make_config, lines 1547-1563)
    /\ window = [rtmp_edit |-> rtmp_base, key_edit |-> stream_key, fps |-> fps,
                 overlay_chk |-> overlay_titles, shuffle_chk |-> shuffle]
    /\ encoder = "libx264" /\ encoder_name = "CPU x264" /\ pix_fmt = "yuv420p"
    /\ extra_venc_flags = << >> /\ probed = << >>
    /\ stop_ev = FALSE /\ skip_ev = FALSE
    /\ ff_proc = NoProc
    /\ pf_video_id = None /\ pf_title = None /\ pf_date = None
    /\ pf_vurl = None /\ pf_aurl = None
    /\ wpc = entry /\ ids = << >> /\ idx = 0 /\ tick = 0
    /\ loc = NoLoc /\ wproc = NoProc
    /\ gpc = "idle" /\ gproc = NoProc /\ streaming = st /\ stop_btn = st
    /\ ppc = "dead" /\ p_vid = None
    /\ alive = {}
    /\ status = << >> /\ finished = 0 /\ fetches = 0 /\ skips = 0
    /\ fetched = << >> /\ visited = << >> /\ pushes = << >>
    /\ lastPrime = None /\ hist = NoHist
\* MainWindow.on_start: the worker's thread is started on StreamWorker.run
InitFor(E, Sh, Bin, Cfg) == InitAt(E, Sh, Bin, Cfg, "run_start", TRUE)

\* ------------------------------------------------ W: StreamWorker.run
\* run, lines 1058-1073: the two binaries must be located.
\* run without the two checks of lines 1066-1073
run_start_unchecked ==
    /\ wpc = "run_start"
    /\ wpc' = "select_encoder"
    /\ UNCHANGED << cfgVars, stop_ev, skip_ev, ff_proc, cacheVars, loopVars, loc, wproc,
                    guiVars, pVars, alive, status, finished, pushes, lastPrime, hist >>

\* StreamWorker.ensure_binaries, lines 444-571: what a path holds after the call. Off
\* Windows the call returns at line 452 and the path is as it was; on Windows the path
\* is set when the file is next to the application, found there or downloaded
\* (lines 495-496, 557, 565-566), and is as it was otherwise.
ensure_binaries(path) == { path, TRUE }

\* run, lines 1058-1072: ensure_binaries, then the run ends (finished, no status) when
\* a binary is missing
run_start ==
    /\ wpc = "run_start"
    /\ ffmpeg_path' \in ensure_binaries(ffmpeg_path)
    /\ ytdlp_path' \in ensure_binaries(ytdlp_path)
    /\ IF ~ffmpeg_path' \/ ~ytdlp_path'
       THEN /\ finished' = finished + 1
            /\ wpc' = "done"
       ELSE /\ wpc' = "select_encoder"
            /\ UNCHANGED finished
    /\ UNCHANGED << rtmp_base, stream_key, shuffle, encVars, envVars, auxVars,
                    stop_ev, skip_ev, ff_proc, cacheVars, loopVars, loc, wproc,
                    guiVars, pVars, alive, status, pushes, lastPrime, hist >>

\* select_encoder, lines 834-862: the first of h264_nvenc, h264_qsv, h264_amf that
\* ffprobe_encoder accepts, else libx264
Encoders == << "h264_nvenc", "h264_qsv", "h264_amf" >>
select(P) ==
    IF \E i \in 1..Len(Encoders) : Encoders[i] \in P
    THEN Encoders[CHOOSE i \in 1..Len(Encoders) :
                    /\ Encoders[i] \in P
                    /\ \A j \in 1..(i - 1) : Encoders[j] \notin P]
    ELSE "libx264"
\* lines 836-861: name, pixel format and flags assigned with each codec
EncoderTable ==
    [ libx264    |-> [encoder_name |-> "CPU x264", pix_fmt |-> "yuv420p",
                      extra_venc_flags |-> << "-preset", "veryfast" >>],
      h264_nvenc |-> [encoder_name |-> "NVIDIA NVENC", pix_fmt |-> "yuv420p",
                      extra_venc_flags |-> << "-preset", "p4", "-rc", "cbr_hq", "-tune", "hq",
                                              "-spatial_aq", "1", "-temporal_aq", "1",
                                              "-aq-strength", "8" >>],
      h264_qsv   |-> [encoder_name |-> "Intel Quick Sync", pix_fmt |-> "nv12",
                      extra_venc_flags |-> << "-look_ahead", "1" >>],
      h264_amf   |-> [encoder_name |-> "AMD AMF", pix_fmt |-> "yuv420p",
                      extra_venc_flags |-> << "-rc", "cbr", "-quality", "quality",
                                              "-usage", "transcoding" >>] ]
\* every codec is probed, whatever the earlier probes returned
probe_all(i, P) == Encoders
\* the ffprobe_encoder calls made from the i-th codec on: each `if` of lines 842-862 is
\* reached only when the probes before it returned False
RECURSIVE probe_from(_, _)
probe_from(i, P) ==
    IF i > Len(Encoders) THEN << >>
    ELSE IF Encoders[i] \in P THEN << Encoders[i] >>
    ELSE << Encoders[i] >> \o probe_from(i + 1, P)
\* the selection select_encoder leaves in cfg, for ffmpeg_path set (path) or not
select_encoder_cfg(path, P) ==
    LET codec == IF path THEN select(P) ELSE "libx264"
    IN  [encoder |-> codec,
         encoder_name |-> EncoderTable[codec].encoder_name,
         pix_fmt |-> EncoderTable[codec].pix_fmt,
         extra_venc_flags |-> EncoderTable[codec].extra_venc_flags,
         probed |-> IF path THEN probe_from(1, P) ELSE << >>]
select_encoder ==
    /\ wpc = "select_encoder"
    /\ LET c == select_encoder_cfg(ffmpeg_path, probes)
       IN  /\ encoder' = c.encoder /\ encoder_name' = c.encoder_name
           /\ pix_fmt' = c.pix_fmt /\ extra_venc_flags' = c.extra_venc_flags
           /\ probed' = c.probed
    /\ hist' = [hist EXCEPT !.phases = Append(@, "probe")]
    /\ wpc' = "preflight"
    /\ UNCHANGED << rtmp_base, stream_key, shuffle, ffmpeg_path, ytdlp_path, envVars, auxVars,
                    stop_ev, skip_ev, ff_proc, cacheVars, loopVars, loc, wproc,
                    guiVars, pVars, alive, status, finished, pushes, lastPrime >>

\* preflight_rtmp, lines 580 and 585-597: the -g and -keyint_min values of the test command
Max(a, b) == IF a >= b THEN a ELSE b
try_push(url) ==
    LET gop == Max(2, fps * 2) IN [cmd |-> "preflight", g |-> gop, keyint_min |-> gop]

\* a command built with the StreamConfig defaults instead of the selected encoder
codec_of_default(cmd) ==
    [cmd |-> cmd, encoder |-> "libx264", pix_fmt |-> "yuv420p", extra_venc_flags |-> << >>]

\* lines 583 and 593 (preflight), 884 and 926 (stream): the format filter and the -c:v
\* arguments of a command, read from cfg when the command is built
codec_of(cmd) ==
    [cmd |-> cmd, encoder |-> encoder, pix_fmt |-> pix_fmt,
     extra_venc_flags |-> extra_venc_flags]

\* try_push, lines 598-604: how the test command can end (it is run with timeout=15)
PushOutcomes == { "exit0", "exit1", "timeout", "exception" }
\* a try_push that takes only a non-zero exit for a failure
push_ok_lenient(o) == o # "exit1"
\* lines 599-604: ok is cp.returncode == 0; False in both except clauses
push_ok(o) == o = "exit0"

\* preflight_rtmp, lines 609-614: the first test push, to cfg.rtmp_url().
\* try_push yields ok = FALSE for a non-zero exit, a timeout or an exception.
preflight_first ==
    /\ wpc = "preflight"
    /\ \E ok \in { push_ok(o) : o \in PushOutcomes } :
         /\ pushes' = Append(pushes, rtmp_url(rtmp_base, stream_key))
         /\ hist' = [hist EXCEPT !.pre1 = IF ok THEN "ok" ELSE "failed",
                                 !.phases = Append(@, "preflight"),
                                 !.gops = @ \cup {try_push(rtmp_url(rtmp_base, stream_key))},
                                 !.codecs = @ \cup {codec_of("preflight")}]
         /\ IF ok
            THEN /\ wpc' = "loop_top"
                 /\ status' = Append(status, "Starting")
            ELSE /\ wpc' = "pre_fallback"
                 /\ UNCHANGED status
    /\ UNCHANGED << cfgVars, stop_ev, skip_ev, ff_proc, cacheVars, loopVars, loc, wproc,
                    guiVars, pVars, alive, finished, lastPrime >>

\* preflight_rtmp, lines 616-641, and run, lines 1080-1084: the rtmps fallback.
preflight_fallback ==
    /\ wpc = "pre_fallback"
    /\ \E u \in { urlparse(rtmp_url(rtmp_base, stream_key)) } :
           \* a ValueError of urlparse is caught at line 637: no retry, the preflight fails
           IF u # ValueError /\ u.scheme = Rtmp
           THEN \E rtmps_url \in { rtmps_fallback_url(u) },
                   ok2 \in { push_ok(o) : o \in PushOutcomes } :
                  /\ pushes' = Append(pushes, rtmps_url)
                  /\ IF ok2
                     THEN /\ rtmp_base' = rsplit_head(rtmps_url)
                          /\ stream_key' = rsplit_tail(rtmps_url)
                          /\ hist' = [hist EXCEPT !.rtmps_ok = rtmps_url,
                                                  !.gops = @ \cup {try_push(rtmps_url)},
                                                  !.codecs = @ \cup {codec_of("fallback")}]
                          /\ wpc' = "loop_top"
                          /\ status' = Append(status, "Starting")
                          /\ UNCHANGED finished
                     ELSE /\ wpc' = "done"
                          /\ status' = Append(status, "Stopped")
                          /\ finished' = finished + 1
                          /\ hist' = [hist EXCEPT !.gops = @ \cup {try_push(rtmps_url)},
                                                  !.codecs = @ \cup {codec_of("fallback")}]
                          /\ UNCHANGED << rtmp_base, stream_key >>
           ELSE /\ wpc' = "done"
                /\ status' = Append(status, "Stopped")
                /\ finished' = finished + 1
                /\ UNCHANGED << rtmp_base, stream_key, hist, pushes >>
    /\ UNCHANGED << shuffle, ffmpeg_path, ytdlp_path, encVars, envVars, auxVars, stop_ev, skip_ev,
                    ff_proc, cacheVars,
                    loopVars, loc, wproc, guiVars, pVars, alive, lastPrime >>

\* run, line 1092: while not self._stop.is_set()
loop_top ==
    /\ wpc = "loop_top"
    /\ wpc' = IF stop_ev THEN "emit_stopped" ELSE "fetch"
    /\ hist' = [hist EXCEPT !.wait = "none"]
    /\ UNCHANGED << cfgVars, stop_ev, skip_ev, ff_proc, cacheVars, loopVars, loc, wproc,
                    guiVars, pVars, alive, status, finished, pushes, lastPrime >>

\* every ordering of a list: what random.shuffle can leave in ids
IsPerm(s, t) ==
    /\ Len(s) = Len(t)
    /\ \A x \in Ids : Cardinality({i \in 1..Len(s) : s[i] = x})
                      = Cardinality({i \in 1..Len(t) : t[i] = x})
\* a draw with repetition in place of a shuffle
Perms_with_repetition(s) == [1..Len(s) -> {s[i] : i \in 1..Len(s)}]
Perms(s) == { t \in [1..Len(s) -> Ids] : IsPerm(s, t) }

\* an exception of get_video_ids leaves the while loop
fetch_from_fatal(L, n) ==
    /\ wpc = "fetch"
    /\ fetches < n
    /\ fetches' = fetches + 1
    /\ \/ /\ wpc' = "emit_stopped"             \* RuntimeError from get_video_ids
          /\ tick' = 0
          /\ hist' = [hist EXCEPT !.wait = "error",
                                  !.phases = IF fetches = 0 THEN Append(@, "fetch") ELSE @]
          /\ UNCHANGED << ids, idx, fetched, visited >>
       \/ \E l \in L :
            IF l = << >>
            THEN /\ wpc' = "backoff"
                 /\ tick' = 0
                 /\ ids' = l
                 /\ hist' = [hist EXCEPT !.wait = "empty",
                                         !.phases = IF fetches = 0 THEN Append(@, "fetch") ELSE @]
                 /\ UNCHANGED << idx, fetched, visited >>
            ELSE /\ fetched' = l
                 /\ ids' \in (IF shuffle THEN Perms(l) ELSE {l})
                 /\ idx' = 1
                 /\ visited' = << >>
                 /\ wpc' = "for_top"
                 /\ hist' = [hist EXCEPT !.wait = "none", !.events = << >>,
                                         !.phases = IF fetches = 0 THEN Append(@, "fetch") ELSE @]
                 /\ UNCHANGED tick
    /\ UNCHANGED << cfgVars, stop_ev, skip_ev, ff_proc, cacheVars, loc, wproc,
                    guiVars, pVars, alive, status, finished, pushes, lastPrime >>

\* run, lines 1094-1104, 1135-1136: get_video_ids raises, returns no identifiers,
\* or returns a list, which is shuffled in place when cfg.shuffle is set.
fetch_from(L, n) ==
    /\ wpc = "fetch"
    /\ fetches < n
    /\ fetches' = fetches + 1
    /\ \/ /\ wpc' = "backoff"                  \* RuntimeError from get_video_ids
          /\ tick' = 0
          /\ hist' = [hist EXCEPT !.wait = "error",
                                  !.phases = IF fetches = 0 THEN Append(@, "fetch") ELSE @]
          /\ UNCHANGED << ids, idx, fetched, visited >>
       \/ \E l \in L :
            IF l = << >>
            THEN /\ wpc' = "backoff"
                 /\ tick' = 0
                 /\ ids' = l
                 /\ hist' = [hist EXCEPT !.wait = "empty",
                                         !.phases = IF fetches = 0 THEN Append(@, "fetch") ELSE @]
                 /\ UNCHANGED << idx, fetched, visited >>
            ELSE /\ fetched' = l
                 /\ ids' \in (IF shuffle THEN Perms(l) ELSE {l})
                 /\ idx' = 1
                 /\ visited' = << >>
                 /\ wpc' = "for_top"
                 /\ hist' = [hist EXCEPT !.wait = "none", !.events = << >>,
                                         !.phases = IF fetches = 0 THEN Append(@, "fetch") ELSE @]
                 /\ UNCHANGED tick
    /\ UNCHANGED << cfgVars, stop_ev, skip_ev, ff_proc, cacheVars, loc, wproc,
                    guiVars, pVars, alive, status, finished, pushes, lastPrime >>

fetch == fetch_from(Playlists, MaxFetches)
\* a get_video_ids call that began before stop was seen returns after stop was set,
\* however many calls were followed before
fetch_pair == fetch_from(PairPlaylists, MaxFetches)
fetch_stopping == stop_ev /\ fetches >= MaxFetches /\ fetch_from(PairPlaylists, fetches + 1)
fetch_quiet == fetch_from(Playlists, QuietFetches)
fetch_pair_quiet == fetch_from(PairPlaylists, QuietFetches)
fetch_solo == fetch_from(SoloPlaylists, QuietFetches)
fetch_solo_runs == fetch_from(RunPlaylists, MaxFetches)
fetch_trio == fetch_from(TrioPlaylists, TrioFetches)

\* run, lines 1097-1101 and 1137-1140: for _ in range(30): stop check, sleep(1)
BackoffTicks == 30
\* the wait does not look at the stop flag
backoff_deaf ==
    /\ wpc = "backoff"
    /\ IF tick = BackoffTicks
       THEN /\ wpc' = "loop_top"
            /\ UNCHANGED tick
       ELSE /\ tick' = tick + 1
            /\ UNCHANGED wpc
    /\ UNCHANGED << cfgVars, stop_ev, skip_ev, ff_proc, cacheVars, ids, idx, fetches, fetched,
                    visited, loc, wproc, guiVars, pVars, alive, status, finished,
                    pushes, lastPrime, hist >>
backoff ==
    /\ wpc = "backoff"
    /\ IF tick = BackoffTicks \/ stop_ev
       THEN /\ wpc' = "loop_top"
            /\ UNCHANGED tick
       ELSE /\ tick' = tick + 1
            /\ UNCHANGED wpc
    /\ UNCHANGED << cfgVars, stop_ev, skip_ev, ff_proc, cacheVars, ids, idx, fetches, fetched,
                    visited, loc, wproc, guiVars, pVars, alive, status, finished,
                    pushes, lastPrime, hist >>

\* run, lines 1106-1108 and 1131-1132: next element of the for loop, stop check
for_top ==
    /\ wpc = "for_top"
    /\ wpc' = IF idx > Len(ids)
              THEN (IF stop_ev THEN "emit_stopped" ELSE "pass_end")
              ELSE (IF stop_ev THEN "emit_stopped" ELSE "prefetch_call")
    /\ hist' = [hist EXCEPT !.cur = NoProc, !.failed = 0, !.skipHit = NoProc,
                            !.slept = FALSE]
    /\ UNCHANGED << cfgVars, stop_ev, skip_ev, ff_proc, cacheVars, loopVars, loc, wproc,
                    guiVars, pVars, alive, status, finished, pushes, lastPrime >>

\* a thread is started whether or not the previous one is alive
prefetch_next_video_unguarded ==
    /\ wpc = "prefetch_call"
    /\ IF idx < Len(ids)
       THEN /\ lastPrime' = ids[idx + 1]
            /\ hist' = [hist EXCEPT !.consumed = FALSE, !.pgen = Append(@, ids[idx + 1]),
                                    !.live = @ + 1]
            /\ ppc' = "p_resolve"
            /\ p_vid' = ids[idx + 1]
       ELSE UNCHANGED << lastPrime, hist, pVars >>
    /\ wpc' = "rov_check_id"
    /\ visited' = Append(visited, ids[idx])
    /\ UNCHANGED << cfgVars, stop_ev, skip_ev, ff_proc, cacheVars, ids, idx, tick, fetches,
                    fetched, loc, wproc, guiVars, alive, status, finished, pushes >>

\* the identifier requested is the current one, ids[idx - 1] of the 0-based list
prefetch_next_video_current ==
    /\ wpc = "prefetch_call"
    /\ IF idx < Len(ids)
       THEN /\ lastPrime' = ids[idx]
            /\ IF ppc # "dead"
               THEN /\ hist' = [hist EXCEPT !.consumed = FALSE]
                    /\ UNCHANGED pVars
               ELSE /\ hist' = [hist EXCEPT !.consumed = FALSE, !.pgen = Append(@, ids[idx]),
                                            !.live = @ + 1]
                    /\ ppc' = "p_resolve"
                    /\ p_vid' = ids[idx]
       ELSE UNCHANGED << lastPrime, hist, pVars >>
    /\ wpc' = "rov_check_id"
    /\ visited' = Append(visited, ids[idx])
    /\ UNCHANGED << cfgVars, stop_ev, skip_ev, ff_proc, cacheVars, ids, idx, tick, fetches,
                    fetched, loc, wproc, guiVars, alive, status, finished, pushes >>

\* run, lines 1115-1117, and prefetch_next_video, lines 826-831: the request is
\* dropped while the previous thread is alive, else a new thread is started.
prefetch_next_video ==
    /\ wpc = "prefetch_call"
    /\ IF idx < Len(ids)
       THEN /\ lastPrime' = ids[idx + 1]
            /\ IF ppc # "dead"
               THEN /\ hist' = [hist EXCEPT !.consumed = FALSE]
                    /\ UNCHANGED pVars
               ELSE /\ hist' = [hist EXCEPT !.consumed = FALSE, !.pgen = Append(@, ids[idx + 1]),
                                            !.live = @ + 1]
                    /\ ppc' = "p_resolve"
                    /\ p_vid' = ids[idx + 1]
       ELSE UNCHANGED << lastPrime, hist, pVars >>
    /\ wpc' = "rov_check_id"
    /\ visited' = Append(visited, ids[idx])
    /\ UNCHANGED << cfgVars, stop_ev, skip_ev, ff_proc, cacheVars, ids, idx, tick, fetches,
                    fetched, loc, wproc, guiVars, alive, status, finished, pushes >>

\* the next pass starts over the list of the pass that ended
pass_end_reuse ==
    /\ wpc = "pass_end"
    /\ wpc' = "for_top"
    /\ idx' = 1
    /\ visited' = << >>
    /\ UNCHANGED << cfgVars, stop_ev, skip_ev, ff_proc, cacheVars, ids, tick, fetches, fetched,
                    loc, wproc, guiVars, pVars, alive, status, finished, pushes, lastPrime,
                    hist >>

\* run, line 1133: the for loop ran to its end and stop is not set
pass_end ==
    /\ wpc = "pass_end"
    /\ wpc' = "loop_top"
    /\ UNCHANGED << cfgVars, stop_ev, skip_ev, ff_proc, cacheVars, loopVars, loc, wproc,
                    guiVars, pVars, alive, status, finished, pushes, lastPrime, hist >>

\* without the try of line 1119 the exception reaches the handler of line 1135
exc_handler_outer ==
    /\ wpc = "exc_handler"
    /\ wpc' = "backoff"
    /\ tick' = 0
    /\ hist' = [hist EXCEPT !.failed = idx]
    /\ UNCHANGED << cfgVars, stop_ev, skip_ev, ff_proc, cacheVars, ids, idx, fetches, fetched,
                    visited, loc, wproc, guiVars, pVars, alive, status, finished, pushes,
                    lastPrime >>

\* run, lines 1121-1126: an exception left run_one_video
exc_handler ==
    /\ wpc = "exc_handler"
    /\ wpc' = "after_item"
    /\ hist' = IF stop_ev THEN [hist EXCEPT !.failed = idx]
               ELSE [hist EXCEPT !.failed = idx, !.slept = TRUE, !.events = Cooled(@)]
    /\ UNCHANGED << cfgVars, stop_ev, skip_ev, ff_proc, cacheVars, loopVars, loc, wproc,
                    guiVars, pVars, alive, status, finished, pushes, lastPrime >>

\* run, lines 1128-1129: stop check after the item, else on to the next element
after_item ==
    /\ wpc = "after_item"
    /\ IF stop_ev
       THEN /\ wpc' = "emit_stopped"
            /\ UNCHANGED idx
       ELSE /\ wpc' = "for_top"
            /\ idx' = idx + 1
    /\ loc' = NoLoc
    /\ UNCHANGED << cfgVars, stop_ev, skip_ev, ff_proc, cacheVars, ids, tick, fetches, fetched,
                    visited, wproc, guiVars, pVars, alive, status, finished,
                    pushes, lastPrime, hist >>

\* run goes back to the loop after the two signals
emit_stopped_restart ==
    /\ wpc = "emit_stopped"
    /\ status' = Append(status, "Stopped")
    /\ finished' = finished + 1
    /\ wpc' = "fetch"
    /\ UNCHANGED << cfgVars, stop_ev, skip_ev, ff_proc, cacheVars, loopVars, loc, wproc,
                    guiVars, pVars, alive, pushes, lastPrime, hist >>

\* run, lines 1142-1143
emit_stopped ==
    /\ wpc = "emit_stopped"
    /\ status' = Append(status, "Stopped")
    /\ finished' = finished + 1
    /\ wpc' = "done"
    /\ UNCHANGED << cfgVars, stop_ev, skip_ev, ff_proc, cacheVars, loopVars, loc, wproc,
                    guiVars, pVars, alive, pushes, lastPrime, hist >>


\* ----------------------------------------- W: StreamWorker.run_one_video
vid == ids[idx]

\* line 950, first operand: self._prefetch_video_id == video_id
rov_check_id ==
    /\ wpc = "rov_check_id"
    /\ wpc' = IF pf_video_id = vid THEN "rov_check_vurl" ELSE "rov_resolve"
    /\ loc' = [loc EXCEPT !.gen = IF pf_video_id = vid THEN hist.tag_gen ELSE 0,
                          !.seen = IF pf_video_id \notin {vid, None} THEN hist.tag_gen ELSE 0]
    /\ UNCHANGED << cfgVars, stop_ev, skip_ev, ff_proc, cacheVars, loopVars, wproc,
                    guiVars, pVars, alive, status, finished, pushes, lastPrime, hist >>

\* line 950, second operand: self._prefetch_vurl is truthy; the cached entry is used
rov_check_vurl ==
    /\ wpc = "rov_check_vurl"
    /\ IF pf_vurl # None
       THEN /\ wpc' = "rov_read_title"
            /\ loc' = [loc EXCEPT !.src = "cache"]
            /\ hist' = [hist EXCEPT !.used = Append(@, << loc.gen, vid >>)]
       ELSE /\ wpc' = "rov_resolve"
            /\ loc' = [loc EXCEPT !.gen = 0]
            /\ UNCHANGED hist
    /\ UNCHANGED << cfgVars, stop_ev, skip_ev, ff_proc, cacheVars, loopVars, wproc,
                    guiVars, pVars, alive, status, finished, pushes, lastPrime >>

\* lines 952-955: the four reads of the cache
rov_read_title ==
    /\ wpc = "rov_read_title"
    /\ loc' = [loc EXCEPT !.title = pf_title]
    /\ wpc' = "rov_read_date"
    /\ UNCHANGED << cfgVars, stop_ev, skip_ev, ff_proc, cacheVars, loopVars, wproc,
                    guiVars, pVars, alive, status, finished, pushes, lastPrime, hist >>
rov_read_date ==
    /\ wpc = "rov_read_date"
    /\ loc' = [loc EXCEPT !.pretty_date = pf_date]
    /\ wpc' = "rov_read_vurl"
    /\ UNCHANGED << cfgVars, stop_ev, skip_ev, ff_proc, cacheVars, loopVars, wproc,
                    guiVars, pVars, alive, status, finished, pushes, lastPrime, hist >>
rov_read_vurl ==
    /\ wpc = "rov_read_vurl"
    /\ loc' = [loc EXCEPT !.vurl = pf_vurl]
    /\ wpc' = "rov_read_aurl"
    /\ UNCHANGED << cfgVars, stop_ev, skip_ev, ff_proc, cacheVars, loopVars, wproc,
                    guiVars, pVars, alive, status, finished, pushes, lastPrime, hist >>
\* the cached entry is read and left in the cache
rov_read_aurl_keep ==
    /\ wpc = "rov_read_aurl"
    /\ loc' = [loc EXCEPT !.aurl = pf_aurl]
    /\ wpc' = "rov_launch"
    /\ UNCHANGED << cfgVars, stop_ev, skip_ev, ff_proc, cacheVars, loopVars, wproc,
                    guiVars, pVars, alive, status, finished, pushes, lastPrime, hist >>
rov_read_aurl ==
    /\ wpc = "rov_read_aurl"
    /\ loc' = [loc EXCEPT !.aurl = pf_aurl]
    /\ wpc' = "rov_clr_id"
    /\ UNCHANGED << cfgVars, stop_ev, skip_ev, ff_proc, cacheVars, loopVars, wproc,
                    guiVars, pVars, alive, status, finished, pushes, lastPrime, hist >>

\* lines 957-961: the five writes that clear the cache after use
rov_clr_id ==
    /\ wpc = "rov_clr_id"
    /\ pf_video_id' = None
    /\ hist' = [hist EXCEPT !.tag_gen = 0]
    /\ wpc' = "rov_clr_title"
    /\ UNCHANGED << cfgVars, stop_ev, skip_ev, ff_proc, pf_title, pf_date, pf_vurl, pf_aurl,
                    loopVars, loc, wproc, guiVars, pVars, alive, status, finished,
                    pushes, lastPrime >>
rov_clr_title ==
    /\ wpc = "rov_clr_title"
    /\ pf_title' = None
    /\ wpc' = "rov_clr_date"
    /\ UNCHANGED << cfgVars, stop_ev, skip_ev, ff_proc, pf_video_id, pf_date, pf_vurl, pf_aurl,
                    loopVars, loc, wproc, guiVars, pVars, alive, status, finished,
                    pushes, lastPrime, hist >>
rov_clr_date ==
    /\ wpc = "rov_clr_date"
    /\ pf_date' = None
    /\ wpc' = "rov_clr_vurl"
    /\ UNCHANGED << cfgVars, stop_ev, skip_ev, ff_proc, pf_video_id, pf_title, pf_vurl, pf_aurl,
                    loopVars, loc, wproc, guiVars, pVars, alive, status, finished,
                    pushes, lastPrime, hist >>
rov_clr_vurl ==
    /\ wpc = "rov_clr_vurl"
    /\ pf_vurl' = None
    /\ wpc' = "rov_clr_aurl"
    /\ UNCHANGED << cfgVars, stop_ev, skip_ev, ff_proc, pf_video_id, pf_title, pf_date, pf_aurl,
                    loopVars, loc, wproc, guiVars, pVars, alive, status, finished,
                    pushes, lastPrime, hist >>
rov_clr_aurl ==
    /\ wpc = "rov_clr_aurl"
    /\ pf_aurl' = None
    /\ hist' = [hist EXCEPT !.consumed = @ \/ (vid = lastPrime)]
    /\ wpc' = "rov_launch"
    /\ UNCHANGED << cfgVars, stop_ev, skip_ev, ff_proc, pf_video_id, pf_title, pf_date, pf_vurl,
                    loopVars, loc, wproc, guiVars, pVars, alive, status, finished,
                    pushes, lastPrime >>

\* lines 962-973: not prefetched; get_metadata and get_stream_urls are called in
\* line, and an exception of either makes run_one_video return.  A resolved
\* field is modelled by the identifier whose resolution produced it.
rov_resolve ==
    /\ wpc = "rov_resolve"
    /\ \/ /\ loc' = [NoLoc EXCEPT !.src = "sync", !.title = vid, !.pretty_date = vid,
                                      !.vurl = vid, !.aurl = vid]
          /\ wpc' = "rov_launch"
          /\ UNCHANGED hist
       \/ /\ wpc' = "after_item"
          /\ hist' = [hist EXCEPT !.failed = idx]
          /\ UNCHANGED loc
    /\ UNCHANGED << cfgVars, stop_ev, skip_ev, ff_proc, cacheVars, loopVars, wproc,
                    guiVars, pVars, alive, status, finished, pushes, lastPrime >>

\* line 888, '.m3u8' in vurl.lower(), when vurl is None
AttributeError == [raised |-> "AttributeError"]
\* the key-frame interval is one second instead of two
build_ffmpeg_cmd_fps(vurl, aurl) ==
    IF vurl = None THEN AttributeError
    ELSE [vurl |-> vurl, aurl |-> aurl, g |-> fps, keyint_min |-> fps,
          out_url |-> rtmp_url(rtmp_base, stream_key)]
\* build_ffmpeg_cmd, lines 865-945: the inputs and the output URL of the command, or
\* the exception of line 888;
\* line 867: gop = self.cfg.fps * 2; line 928: "-g", str(gop), "-keyint_min", str(gop)
build_ffmpeg_cmd(vurl, aurl) ==
    LET gop == fps * 2
    IN  IF vurl = None THEN AttributeError
        ELSE [vurl |-> vurl, aurl |-> aurl, g |-> gop, keyint_min |-> gop,
              out_url |-> rtmp_url(rtmp_base, stream_key)]

\* str.replace("\n", " ") and str.strip() of line 978. A text is a sequence of
\* characters; a character that a string here cannot hold is written by its escape
\* in the source language ("\\x0b" is the one character U+000B).
\* Whitespace: the characters str.isspace() accepts, which str.strip() removes
Whitespace ==
    { " ", "\t", "\n", "\r", "\f", "\\x0b", "\\x1c", "\\x1d", "\\x1e", "\\x1f",
      "\\x85", "\\xa0", "\\u1680", "\\u2000", "\\u2001", "\\u2002", "\\u2003",
      "\\u2004", "\\u2005", "\\u2006", "\\u2007", "\\u2008", "\\u2009", "\\u200a",
      "\\u2028", "\\u2029", "\\u202f", "\\u205f", "\\u3000" }
replace_newline(t) == [i \in 1..Len(t) |-> IF t[i] = "\n" THEN " " ELSE t[i]]
strip(t) ==
    LET keep == { i \in 1..Len(t) : t[i] \notin Whitespace }
    IN  IF keep = {} THEN << >>
        ELSE LET lo == CHOOSE i \in keep : \A j \in keep : i <= j
                 hi == CHOOSE i \in keep : \A j \in keep : j <= i
             IN  SubSeq(t, lo, hi)
Min(a, b) == IF a <= b THEN a ELSE b
\* t[:n] for n >= 0
slice_to(t, n) == SubSeq(t, 1, Min(n, Len(t)))

\* lines 977-985: the overlay text of a title and a formatted date (<< >> for None)
MAX_LEN == 75
\* line 977, the three characters " \u2022 " before the date ("*" stands for the bullet)
Bullet == << " ", "*", " " >>
Ellipsis == << ".", ".", "." >>
\* the cut leaves no room for the three characters "..."
overlay_text_tight(title, pretty_date) ==
    LET suffix == IF pretty_date # << >> THEN Bullet \o pretty_date ELSE << >>
        title_clean == strip(replace_newline(title))
        avail == Max(10, MAX_LEN - Len(suffix))
    IN  IF Len(title_clean) + Len(suffix) > MAX_LEN
        THEN slice_to(title_clean, avail) \o Ellipsis \o suffix
        ELSE title_clean \o suffix
overlay_text(title, pretty_date) ==
    LET suffix == IF pretty_date # << >> THEN Bullet \o pretty_date ELSE << >>
        title_clean == strip(replace_newline(title))
        avail == Max(10, MAX_LEN - Len(suffix) - 3)
    IN  IF Len(title_clean) + Len(suffix) > MAX_LEN
        THEN slice_to(title_clean, avail) \o Ellipsis \o suffix
        ELSE title_clean \o suffix

\* the text of a field run_one_video read: a field that was read as None has no
\* text, any other holds the text of the video it names
title_of(field) == IF field = None THEN << >> ELSE meta.title
date_of(field) == IF field = None THEN << >> ELSE meta.date

\* lines 975-994: the overlay text of the title and date that were read is written,
\* build_ffmpeg_cmd is called (its exception leaves run_one_video with the skip flag
\* as it was), then self._skip.clear()
rov_launch ==
    /\ wpc = "rov_launch"
    /\ LET ff_cmd == build_ffmpeg_cmd(loc.vurl, loc.aurl)
           text == IF overlay_titles
                   THEN overlay_text(title_of(loc.title), date_of(loc.pretty_date))
                   ELSE loc.overlay_text
       IN  IF ff_cmd = AttributeError
           THEN /\ loc' = [loc EXCEPT !.overlay_text = text]
                /\ wpc' = "exc_handler"
                /\ UNCHANGED << skip_ev, hist >>
           ELSE /\ loc' = [loc EXCEPT !.out_url = ff_cmd.out_url,
                                       !.gop = ff_cmd.g, !.keyint_min = ff_cmd.keyint_min,
                                       !.overlay_text = text]
                /\ hist' = [hist EXCEPT !.gops = @ \cup {[cmd |-> "stream", g |-> ff_cmd.g,
                                                           keyint_min |-> ff_cmd.keyint_min]},
                                        !.codecs = @ \cup {codec_of("stream")}]
                /\ skip_ev' = FALSE
                /\ wpc' = "rov_popen"
    /\ UNCHANGED << cfgVars, stop_ev, ff_proc, cacheVars, loopVars, wproc,
                    guiVars, pVars, alive, status, finished, pushes, lastPrime >>

\* lines 995-1004, the call: subprocess.Popen starts the child or raises
rov_popen ==
    /\ wpc = "rov_popen"
    /\ \/ /\ alive' = alive \cup {<< fetches, idx >>}
          /\ wproc' = << fetches, idx >>
          /\ hist' = [hist EXCEPT !.cur = << fetches, idx >>,
                                  !.events = Append(@, vid)]
          /\ wpc' = "rov_store"
       \/ /\ wpc' = "exc_handler"
          /\ UNCHANGED << alive, wproc, hist >>
    /\ UNCHANGED << cfgVars, stop_ev, skip_ev, ff_proc, cacheVars, loopVars, loc,
                    guiVars, pVars, status, finished, pushes, lastPrime >>

\* line 995, the assignment: self.ff_proc = <the new process>
rov_store ==
    /\ wpc = "rov_store"
    /\ ff_proc' = wproc
    /\ wproc' = NoProc
    /\ wpc' = "rov_readers"
    /\ UNCHANGED << cfgVars, stop_ev, skip_ev, cacheVars, loopVars, loc,
                    guiVars, pVars, alive, status, finished, pushes, lastPrime, hist >>

\* lines 1010-1020: self.ff_proc.stdout / .stderr are read to start the reader
\* threads; AttributeError when self.ff_proc is None by then
rov_readers ==
    /\ wpc = "rov_readers"
    /\ wpc' = IF ff_proc = NoProc THEN "exc_handler" ELSE "rov_poll"
    /\ UNCHANGED << cfgVars, stop_ev, skip_ev, ff_proc, cacheVars, loopVars, loc, wproc,
                    guiVars, pVars, alive, status, finished, pushes, lastPrime, hist >>

\* line 1023, first operand of the while condition: self.ff_proc
rov_poll ==
    /\ wpc = "rov_poll"
    /\ wpc' = IF ff_proc = NoProc THEN "rov_after_poll" ELSE "rov_poll2"
    /\ UNCHANGED << cfgVars, stop_ev, skip_ev, ff_proc, cacheVars, loopVars, loc, wproc,
                    guiVars, pVars, alive, status, finished, pushes, lastPrime, hist >>

\* a poll loop that does not look at the flags
rov_poll2_deaf ==
    /\ wpc = "rov_poll2"
    /\ wpc' = IF ff_proc = NoProc THEN "exc_handler"
              ELSE IF ff_proc \in alive THEN "rov_poll"
              ELSE "rov_after_poll"
    /\ UNCHANGED << cfgVars, stop_ev, skip_ev, ff_proc, cacheVars, loopVars, loc, wproc,
                    guiVars, pVars, alive, status, finished, pushes, lastPrime, hist >>

\* lines 1023-1026, the rest of the condition: self.ff_proc.poll() is None and
\* neither flag is set, then sleep(0.2); AttributeError when self.ff_proc is None
rov_poll2 ==
    /\ wpc = "rov_poll2"
    /\ wpc' = IF ff_proc = NoProc THEN "exc_handler"
              ELSE IF ff_proc \in alive /\ ~(stop_ev \/ skip_ev) THEN "rov_poll"
              ELSE "rov_after_poll"
    /\ UNCHANGED << cfgVars, stop_ev, skip_ev, ff_proc, cacheVars, loopVars, loc, wproc,
                    guiVars, pVars, alive, status, finished, pushes, lastPrime, hist >>

\* lines 1027-1034: terminate on stop or skip, else wait for the exited process
rov_after_poll ==
    /\ wpc = "rov_after_poll"
    /\ wpc' = IF stop_ev \/ skip_ev THEN "wt_read" ELSE "rov_flush"
    /\ UNCHANGED << cfgVars, stop_ev, skip_ev, ff_proc, cacheVars, loopVars, loc, wproc,
                    guiVars, pVars, alive, status, finished, pushes, lastPrime, hist >>

\* lines 1036-1040: join the readers; if self.ff_proc:
rov_flush ==
    /\ wpc = "rov_flush"
    /\ wpc' = IF ff_proc = NoProc THEN "rov_cooldown" ELSE "rov_flush2"
    /\ UNCHANGED << cfgVars, stop_ev, skip_ev, ff_proc, cacheVars, loopVars, loc, wproc,
                    guiVars, pVars, alive, status, finished, pushes, lastPrime, hist >>

\* line 1041: the streams self.ff_proc.stdout and self.ff_proc.stderr are taken;
\* AttributeError when self.ff_proc is None by then
rov_flush2 ==
    /\ wpc = "rov_flush2"
    /\ IF ff_proc = NoProc
       THEN wproc' = NoProc /\ wpc' = "exc_handler"
       ELSE wproc' = ff_proc /\ wpc' = "rov_read"
    /\ UNCHANGED << cfgVars, stop_ev, skip_ev, ff_proc, cacheVars, loopVars, loc,
                    guiVars, pVars, alive, status, finished, pushes, lastPrime, hist >>

\* lines 1042-1048: stream.read() returns at the end of each stream, which comes when
\* the child has exited, whatever self.ff_proc has become; then self.ff_proc = None
\* (line 1048); or, the pipes being text streams (line 1000), the read raises
\* UnicodeDecodeError on output that is not text, and self.ff_proc is left as it is
rov_read ==
    /\ wpc = "rov_read"
    /\ wproc \notin alive
    /\ \/ ff_proc' = NoProc /\ wpc' = "rov_cooldown"
       \/ UNCHANGED ff_proc /\ wpc' = "exc_handler"
    /\ wproc' = NoProc
    /\ UNCHANGED << cfgVars, stop_ev, skip_ev, cacheVars, loopVars, loc,
                    guiVars, pVars, alive, status, finished, pushes, lastPrime, hist >>

\* run_one_video returns without the sleep of line 1053
rov_cooldown_no_sleep ==
    /\ wpc = "rov_cooldown"
    /\ wpc' = "after_item"
    /\ UNCHANGED << cfgVars, stop_ev, skip_ev, ff_proc, cacheVars, loopVars, loc, wproc,
                    guiVars, pVars, alive, status, finished, pushes, lastPrime, hist >>

\* the skip flag is cleared when the item ends as well
rov_cooldown_clear_skip ==
    /\ wpc = "rov_cooldown"
    /\ wpc' = "after_item"
    /\ hist' = IF stop_ev THEN hist
               ELSE [hist EXCEPT !.slept = TRUE, !.events = Cooled(@)]
    /\ skip_ev' = FALSE
    /\ UNCHANGED << cfgVars, stop_ev, ff_proc, cacheVars, loopVars, loc, wproc,
                    guiVars, pVars, alive, status, finished, pushes, lastPrime >>

\* lines 1052-1053: the cool-down sleep(2) unless stop is set, then return
rov_cooldown ==
    /\ wpc = "rov_cooldown"
    /\ wpc' = "after_item"
    /\ hist' = IF stop_ev THEN hist
               ELSE [hist EXCEPT !.slept = TRUE, !.events = Cooled(@)]
    /\ UNCHANGED << cfgVars, stop_ev, skip_ev, ff_proc, cacheVars, loopVars, loc, wproc,
                    guiVars, pVars, alive, status, finished, pushes, lastPrime >>


\* ------------------------------------ _terminate_ff_proc, called by W
\* lines 648-650: proc = self.ff_proc; nothing to do when None or exited
wt_read ==
    /\ wpc = "wt_read"
    /\ IF ff_proc = NoProc \/ ff_proc \notin alive
       THEN wproc' = NoProc /\ wpc' = "rov_flush"
       ELSE wproc' = ff_proc /\ wpc' = "wt_term"
    /\ UNCHANGED << cfgVars, stop_ev, skip_ev, ff_proc, cacheVars, loopVars, loc,
                    guiVars, pVars, alive, status, finished, pushes, lastPrime, hist >>

\* lines 651-655: proc.terminate(); proc.wait(timeout=1.0): the child exits
\* within the wait or ignores the request
wt_term ==
    /\ wpc = "wt_term"
    /\ \/ alive' = alive \ {wproc}
       \/ UNCHANGED alive
    /\ wpc' = "wt_kill"
    /\ UNCHANGED << cfgVars, stop_ev, skip_ev, ff_proc, cacheVars, loopVars, loc, wproc,
                    guiVars, pVars, status, finished, pushes, lastPrime, hist >>

\* lines 656-661: if proc.poll() is None: proc.kill(); proc.wait(timeout=1.0): the
\* child ends within the wait, or the kill fails or the wait times out, which the
\* except clause passes over
wt_kill ==
    /\ wpc = "wt_kill"
    /\ \/ alive' = alive \ {wproc}
       \/ UNCHANGED alive
    /\ wpc' = "wt_tree"
    /\ UNCHANGED << cfgVars, stop_ev, skip_ev, ff_proc, cacheVars, loopVars, loc, wproc,
                    guiVars, pVars, status, finished, pushes, lastPrime, hist >>

\* lines 662-670, first command: if IS_WIN and proc.poll() is None: taskkill /PID of
\* the child and its tree, which ends the child or fails. Nothing is done on another
\* platform or when the child has exited.
wt_tree ==
    /\ wpc = "wt_tree"
    /\ \/ /\ wpc' = "rov_flush"
          /\ wproc' = NoProc
          /\ UNCHANGED alive
       \/ /\ wproc \in alive
          /\ wpc' = "wt_poll"
          /\ \/ alive' = alive \ {wproc}
             \/ UNCHANGED alive
          /\ UNCHANGED wproc
    /\ UNCHANGED << cfgVars, stop_ev, skip_ev, ff_proc, cacheVars, loopVars, loc,
                    guiVars, pVars, status, finished, pushes, lastPrime, hist >>

\* lines 671-672: if proc.poll() is not None: break
wt_poll ==
    /\ wpc = "wt_poll"
    /\ IF wproc \in alive
       THEN wpc' = "wt_name" /\ UNCHANGED wproc
       ELSE wpc' = "rov_flush" /\ wproc' = NoProc
    /\ UNCHANGED << cfgVars, stop_ev, skip_ev, ff_proc, cacheVars, loopVars, loc,
                    guiVars, pVars, alive, status, finished, pushes, lastPrime, hist >>

\* lines 663-672, second command: taskkill /IM ffmpeg.exe, which ends the processes of
\* that name it can, this child or others, or none
wt_name ==
    /\ wpc = "wt_name"
    /\ \E gone \in SUBSET alive : alive' = alive \ gone
    /\ wproc' = NoProc
    /\ wpc' = "rov_flush"
    /\ UNCHANGED << cfgVars, stop_ev, skip_ev, ff_proc, cacheVars, loopVars, loc,
                    guiVars, pVars, status, finished, pushes, lastPrime, hist >>

\* ------------------------------- MainWindow.on_test_rtmp: _RTMPTester.run
\* lines 1808-1812: a StreamWorker of its own is constructed for the test (the binaries
\* are located or not), its ensure_binaries and its select_encoder are called
test_select_encoder ==
    /\ wpc = "test_select"
    /\ ffmpeg_path' \in ensure_binaries(ffmpeg_path)
    /\ ytdlp_path' \in ensure_binaries(ytdlp_path)
    /\ LET c == select_encoder_cfg(ffmpeg_path', probes)
       IN  /\ encoder' = c.encoder /\ encoder_name' = c.encoder_name
           /\ pix_fmt' = c.pix_fmt /\ extra_venc_flags' = c.extra_venc_flags
           /\ probed' = c.probed
    /\ hist' = [hist EXCEPT !.phases = Append(@, "probe")]
    /\ wpc' = "test_preflight"
    /\ UNCHANGED << rtmp_base, stream_key, shuffle, envVars, auxVars,
                    stop_ev, skip_ev, ff_proc, cacheVars, loopVars, loc, wproc,
                    guiVars, pVars, alive, status, finished, pushes, lastPrime >>

\* line 1813: ok = worker.preflight_rtmp(), the whole call (lines 573-644)
test_preflight ==
    /\ wpc = "test_preflight"
    /\ \E url \in { rtmp_url(rtmp_base, stream_key) } :
         \E u \in { urlparse(url) }, o1, o2 \in PushOutcomes :
             LET rtmps_url == rtmps_fallback_url(u)
                 ok == push_ok(o1)
                 ok2 == push_ok(o2)
                 \* a ValueError of urlparse is caught at line 637: no retry
                 retry == u # ValueError /\ u.scheme = Rtmp
                 again == ~ok /\ retry
             IN
             \* o2 matters only when the second push is made
             /\ again \/ o2 = "exit0"
             /\ pushes' = IF ok \/ ~retry
                          THEN Append(pushes, url)
                          ELSE pushes \o << url, rtmps_url >>
             /\ IF again /\ ok2
                THEN /\ rtmp_base' = rsplit_head(rtmps_url)
                     /\ stream_key' = rsplit_tail(rtmps_url)
                ELSE UNCHANGED << rtmp_base, stream_key >>
             /\ hist' = [hist EXCEPT !.pre1 = IF ok THEN "ok" ELSE "failed",
                                     !.phases = Append(@, "preflight"),
                                     !.gops = @ \cup {try_push(url)},
                                     !.codecs = @ \cup {codec_of("preflight")},
                                     !.outcomes = IF again THEN << o1, o2 >> ELSE << o1 >>,
                                     !.tested = << ok \/ (again /\ ok2) >>]
    /\ wpc' = "test_done"
    /\ UNCHANGED << shuffle, ffmpeg_path, ytdlp_path, encVars, envVars, auxVars, stop_ev,
                    skip_ev, ff_proc, cacheVars, loopVars, loc, wproc, guiVars, pVars,
                    alive, status, finished, lastPrime >>

\* ------------------------- get_stream_urls, one call followed strategy by strategy
\* lines 755-756, 769-774 and 789: the -f argument of each yt-dlp call, in the order of
\* the calls ("" stands for the call without -f)
Strategies == << "hls", "bv*+ba/best", "best[height<=?1080]", "worst[height>=480]",
                 "best", "" >>
format_strategies == SubSeq(Strategies, 2, 5)

\* what one yt-dlp call can do: raise, or complete with a return code and output lines
M3u8Lines == { "v.m3u8", "a.m3u8" }
Outputs ==
    { [raises |-> TRUE, rc |-> 0, lines |-> << >>],
      [raises |-> FALSE, rc |-> 1, lines |-> << >>],
      [raises |-> FALSE, rc |-> 1, lines |-> << "v.mp4" >>],
      [raises |-> FALSE, rc |-> 0, lines |-> << >>],
      [raises |-> FALSE, rc |-> 0, lines |-> << "v.m3u8" >>],
      [raises |-> FALSE, rc |-> 0, lines |-> << "v.mp4" >>],
      [raises |-> FALSE, rc |-> 0, lines |-> << "v.mp4", "a.m4a" >>],
      [raises |-> FALSE, rc |-> 0, lines |-> << "v.mp4", "a.m3u8" >>] }

\* lines 757 and 778 and 790: cp.returncode == 0 and cp.stdout, then the stripped lines
stdout_lines(o) == IF ~o.raises /\ o.rc = 0 THEN o.lines ELSE << >>
any_m3u8(lines) == \E i \in 1..Len(lines) : lines[i] \in M3u8Lines
\* line 761: next((line for line in lines if '.m3u8' in line), None)
first_m3u8(lines) ==
    lines[CHOOSE i \in 1..Len(lines) :
            /\ lines[i] \in M3u8Lines
            /\ \A j \in 1..(i - 1) : lines[j] \notin M3u8Lines]
\* lines 784 and 793: (lines[0], None) if len(lines) == 1 else (lines[0], lines[1])
pair_of(lines) ==
    [kind |-> "return", video |-> lines[1],
     audio |-> IF Len(lines) = 1 THEN None ELSE lines[2]]
Raised(msg) == [kind |-> "raise", video |-> msg, audio |-> None]

\* lines 749-750: no yt-dlp binary, the call raises at once
u_start ==
    /\ urls.pc = "start"
    /\ urls' = IF ~ytdlp_path
               THEN [urls EXCEPT !.pc = "raised", !.result = Raised("yt-dlp.exe not found.")]
               ELSE [urls EXCEPT !.pc = "hls"]
    /\ UNCHANGED << mainVars, ladder, call >>

\* a loop over format_strategies that starts at its second entry
u_next_skip(i) == IF i = 1 THEN 3 ELSE i + 1
\* the strategy tried after the one at position i has failed
u_next(i) == i + 1

\* lines 754-766: strategy 1, the HLS manifest
u_hls ==
    /\ urls.pc = "hls"
    /\ \E o \in Outputs :
         LET lines == stdout_lines(o)
             calls == Append(urls.calls, [f |-> Strategies[1], o |-> o])
         IN  urls' = IF any_m3u8(lines)
                     THEN [urls EXCEPT !.pc = "returned", !.calls = calls,
                                       !.result = [kind |-> "return",
                                                   video |-> first_m3u8(lines),
                                                   audio |-> None]]
                     ELSE [urls EXCEPT !.pc = "fmt", !.k = u_next(1), !.calls = calls]
    /\ UNCHANGED << mainVars, ladder, call >>

\* lines 776-786: strategy 2, one pass of the loop over format_strategies
u_fmt ==
    /\ urls.pc = "fmt"
    /\ \E o \in Outputs :
         LET lines == stdout_lines(o)
             calls == Append(urls.calls, [f |-> Strategies[urls.k], o |-> o])
         IN  urls' = IF lines # << >> /\ ~any_m3u8(lines)
                     THEN [urls EXCEPT !.pc = "returned", !.calls = calls,
                                       !.result = pair_of(lines)]
                     ELSE IF u_next(urls.k) > 1 + Len(format_strategies)
                     THEN [urls EXCEPT !.pc = "plain", !.k = u_next(urls.k),
                                       !.calls = calls]
                     ELSE [urls EXCEPT !.k = u_next(urls.k), !.calls = calls]
    /\ UNCHANGED << mainVars, ladder, call >>

\* lines 788-799: strategy 3, no -f argument, and the final raise
u_plain ==
    /\ urls.pc = "plain"
    /\ \E o \in Outputs :
         LET lines == stdout_lines(o)
             calls == Append(urls.calls, [f |-> Strategies[6], o |-> o])
         IN  urls' = IF lines # << >>
                     THEN [urls EXCEPT !.pc = "returned", !.calls = calls,
                                       !.result = pair_of(lines)]
                     ELSE [urls EXCEPT !.pc = "raised", !.calls = calls,
                                       !.result = Raised("No playable formats")]
    /\ UNCHANGED << mainVars, ladder, call >>

\* ------------------------------------------------- fmt_yt_date, lines 231-261
\* An optional value is << >> (None) or << v >>; a string is a sequence of characters.
Some(v) == << v >>
\* the characters str.isdecimal() accepts: the digits 0 to 9 of every script, one row
\* a script (the first row is ASCII), in the order of their values
DecimalDigits ==
    << << "0", "1", "2", "3", "4", "5", "6", "7", "8", "9" >>,
       << "\\u0660", "\\u0661", "\\u0662", "\\u0663", "\\u0664", "\\u0665", "\\u0666", "\\u0667", "\\u0668", "\\u0669" >>,
       << "\\u06f0", "\\u06f1", "\\u06f2", "\\u06f3", "\\u06f4", "\\u06f5", "\\u06f6", "\\u06f7", "\\u06f8", "\\u06f9" >>,
       << "\\u07c0", "\\u07c1", "\\u07c2", "\\u07c3", "\\u07c4", "\\u07c5", "\\u07c6", "\\u07c7", "\\u07c8", "\\u07c9" >>,
       << "\\u0966", "\\u0967", "\\u0968", "\\u0969", "\\u096a", "\\u096b", "\\u096c", "\\u096d", "\\u096e", "\\u096f" >>,
       << "\\u09e6", "\\u09e7", "\\u09e8", "\\u09e9", "\\u09ea", "\\u09eb", "\\u09ec", "\\u09ed", "\\u09ee", "\\u09ef" >>,
       << "\\u0a66", "\\u0a67", "\\u0a68", "\\u0a69", "\\u0a6a", "\\u0a6b", "\\u0a6c", "\\u0a6d", "\\u0a6e", "\\u0a6f" >>,
       << "\\u0ae6", "\\u0ae7", "\\u0ae8", "\\u0ae9", "\\u0aea", "\\u0aeb", "\\u0aec", "\\u0aed", "\\u0aee", "\\u0aef" >>,
       << "\\u0b66", "\\u0b67", "\\u0b68", "\\u0b69", "\\u0b6a", "\\u0b6b", "\\u0b6c", "\\u0b6d", "\\u0b6e", "\\u0b6f" >>,
       << "\\u0be6", "\\u0be7", "\\u0be8", "\\u0be9", "\\u0bea", "\\u0beb", "\\u0bec", "\\u0bed", "\\u0bee", "\\u0bef" >>,
       << "\\u0c66", "\\u0c67", "\\u0c68", "\\u0c69", "\\u0c6a", "\\u0c6b", "\\u0c6c", "\\u0c6d", "\\u0c6e", "\\u0c6f" >>,
       << "\\u0ce6", "\\u0ce7", "\\u0ce8", "\\u0ce9", "\\u0cea", "\\u0ceb", "\\u0cec", "\\u0ced", "\\u0cee", "\\u0cef" >>,
       << "\\u0d66", "\\u0d67", "\\u0d68", "\\u0d69", "\\u0d6a", "\\u0d6b", "\\u0d6c", "\\u0d6d", "\\u0d6e", "\\u0d6f" >>,
       << "\\u0de6", "\\u0de7", "\\u0de8", "\\u0de9", "\\u0dea", "\\u0deb", "\\u0dec", "\\u0ded", "\\u0dee", "\\u0def" >>,
       << "\\u0e50", "\\u0e51", "\\u0e52", "\\u0e53", "\\u0e54", "\\u0e55", "\\u0e56", "\\u0e57", "\\u0e58", "\\u0e59" >>,
       << "\\u0ed0", "\\u0ed1", "\\u0ed2", "\\u0ed3", "\\u0ed4", "\\u0ed5", "\\u0ed6", "\\u0ed7", "\\u0ed8", "\\u0ed9" >>,
       << "\\u0f20", "\\u0f21", "\\u0f22", "\\u0f23", "\\u0f24", "\\u0f25", "\\u0f26", "\\u0f27", "\\u0f28", "\\u0f29" >>,
       << "\\u1040", "\\u1041", "\\u1042", "\\u1043", "\\u1044", "\\u1045", "\\u1046", "\\u1047", "\\u1048", "\\u1049" >>,
       << "\\u1090", "\\u1091", "\\u1092", "\\u1093", "\\u1094", "\\u1095", "\\u1096", "\\u1097", "\\u1098", "\\u1099" >>,
       << "\\u17e0", "\\u17e1", "\\u17e2", "\\u17e3", "\\u17e4", "\\u17e5", "\\u17e6", "\\u17e7", "\\u17e8", "\\u17e9" >>,
       << "\\u1810", "\\u1811", "\\u1812", "\\u1813", "\\u1814", "\\u1815", "\\u1816", "\\u1817", "\\u1818", "\\u1819" >>,
       << "\\u1946", "\\u1947", "\\u1948", "\\u1949", "\\u194a", "\\u194b", "\\u194c", "\\u194d", "\\u194e", "\\u194f" >>,
       << "\\u19d0", "\\u19d1", "\\u19d2", "\\u19d3", "\\u19d4", "\\u19d5", "\\u19d6", "\\u19d7", "\\u19d8", "\\u19d9" >>,
       << "\\u1a80", "\\u1a81", "\\u1a82", "\\u1a83", "\\u1a84", "\\u1a85", "\\u1a86", "\\u1a87", "\\u1a88", "\\u1a89" >>,
       << "\\u1a90", "\\u1a91", "\\u1a92", "\\u1a93", "\\u1a94", "\\u1a95", "\\u1a96", "\\u1a97", "\\u1a98", "\\u1a99" >>,
       << "\\u1b50", "\\u1b51", "\\u1b52", "\\u1b53", "\\u1b54", "\\u1b55", "\\u1b56", "\\u1b57", "\\u1b58", "\\u1b59" >>,
       << "\\u1bb0", "\\u1bb1", "\\u1bb2", "\\u1bb3", "\\u1bb4", "\\u1bb5", "\\u1bb6", "\\u1bb7", "\\u1bb8", "\\u1bb9" >>,
       << "\\u1c40", "\\u1c41", "\\u1c42", "\\u1c43", "\\u1c44", "\\u1c45", "\\u1c46", "\\u1c47", "\\u1c48", "\\u1c49" >>,
       << "\\u1c50", "\\u1c51", "\\u1c52", "\\u1c53", "\\u1c54", "\\u1c55", "\\u1c56", "\\u1c57", "\\u1c58", "\\u1c59" >>,
       << "\\ua620", "\\ua621", "\\ua622", "\\ua623", "\\ua624", "\\ua625", "\\ua626", "\\ua627", "\\ua628", "\\ua629" >>,
       << "\\ua8d0", "\\ua8d1", "\\ua8d2", "\\ua8d3", "\\ua8d4", "\\ua8d5", "\\ua8d6", "\\ua8d7", "\\ua8d8", "\\ua8d9" >>,
       << "\\ua900", "\\ua901", "\\ua902", "\\ua903", "\\ua904", "\\ua905", "\\ua906", "\\ua907", "\\ua908", "\\ua909" >>,
       << "\\ua9d0", "\\ua9d1", "\\ua9d2", "\\ua9d3", "\\ua9d4", "\\ua9d5", "\\ua9d6", "\\ua9d7", "\\ua9d8", "\\ua9d9" >>,
       << "\\ua9f0", "\\ua9f1", "\\ua9f2", "\\ua9f3", "\\ua9f4", "\\ua9f5", "\\ua9f6", "\\ua9f7", "\\ua9f8", "\\ua9f9" >>,
       << "\\uaa50", "\\uaa51", "\\uaa52", "\\uaa53", "\\uaa54", "\\uaa55", "\\uaa56", "\\uaa57", "\\uaa58", "\\uaa59" >>,
       << "\\uabf0", "\\uabf1", "\\uabf2", "\\uabf3", "\\uabf4", "\\uabf5", "\\uabf6", "\\uabf7", "\\uabf8", "\\uabf9" >>,
       << "\\uff10", "\\uff11", "\\uff12", "\\uff13", "\\uff14", "\\uff15", "\\uff16", "\\uff17", "\\uff18", "\\uff19" >>,
       << "\\U000104a0", "\\U000104a1", "\\U000104a2", "\\U000104a3", "\\U000104a4", "\\U000104a5", "\\U000104a6", "\\U000104a7", "\\U000104a8", "\\U000104a9" >>,
       << "\\U00010d30", "\\U00010d31", "\\U00010d32", "\\U00010d33", "\\U00010d34", "\\U00010d35", "\\U00010d36", "\\U00010d37", "\\U00010d38", "\\U00010d39" >>,
       << "\\U00011066", "\\U00011067", "\\U00011068", "\\U00011069", "\\U0001106a", "\\U0001106b", "\\U0001106c", "\\U0001106d", "\\U0001106e", "\\U0001106f" >>,
       << "\\U000110f0", "\\U000110f1", "\\U000110f2", "\\U000110f3", "\\U000110f4", "\\U000110f5", "\\U000110f6", "\\U000110f7", "\\U000110f8", "\\U000110f9" >>,
       << "\\U00011136", "\\U00011137", "\\U00011138", "\\U00011139", "\\U0001113a", "\\U0001113b", "\\U0001113c", "\\U0001113d", "\\U0001113e", "\\U0001113f" >>,
       << "\\U000111d0", "\\U000111d1", "\\U000111d2", "\\U000111d3", "\\U000111d4", "\\U000111d5", "\\U000111d6", "\\U000111d7", "\\U000111d8", "\\U000111d9" >>,
       << "\\U000112f0", "\\U000112f1", "\\U000112f2", "\\U000112f3", "\\U000112f4", "\\U000112f5", "\\U000112f6", "\\U000112f7", "\\U000112f8", "\\U000112f9" >>,
       << "\\U00011450", "\\U00011451", "\\U00011452", "\\U00011453", "\\U00011454", "\\U00011455", "\\U00011456", "\\U00011457", "\\U00011458", "\\U00011459" >>,
       << "\\U000114d0", "\\U000114d1", "\\U000114d2", "\\U000114d3", "\\U000114d4", "\\U000114d5", "\\U000114d6", "\\U000114d7", "\\U000114d8", "\\U000114d9" >>,
       << "\\U00011650", "\\U00011651", "\\U00011652", "\\U00011653", "\\U00011654", "\\U00011655", "\\U00011656", "\\U00011657", "\\U00011658", "\\U00011659" >>,
       << "\\U000116c0", "\\U000116c1", "\\U000116c2", "\\U000116c3", "\\U000116c4", "\\U000116c5", "\\U000116c6", "\\U000116c7", "\\U000116c8", "\\U000116c9" >>,
       << "\\U00011730", "\\U00011731", "\\U00011732", "\\U00011733", "\\U00011734", "\\U00011735", "\\U00011736", "\\U00011737", "\\U00011738", "\\U00011739" >>,
       << "\\U000118e0", "\\U000118e1", "\\U000118e2", "\\U000118e3", "\\U000118e4", "\\U000118e5", "\\U000118e6", "\\U000118e7", "\\U000118e8", "\\U000118e9" >>,
       << "\\U00011950", "\\U00011951", "\\U00011952", "\\U00011953", "\\U00011954", "\\U00011955", "\\U00011956", "\\U00011957", "\\U00011958", "\\U00011959" >>,
       << "\\U00011c50", "\\U00011c51", "\\U00011c52", "\\U00011c53", "\\U00011c54", "\\U00011c55", "\\U00011c56", "\\U00011c57", "\\U00011c58", "\\U00011c59" >>,
       << "\\U00011d50", "\\U00011d51", "\\U00011d52", "\\U00011d53", "\\U00011d54", "\\U00011d55", "\\U00011d56", "\\U00011d57", "\\U00011d58", "\\U00011d59" >>,
       << "\\U00011da0", "\\U00011da1", "\\U00011da2", "\\U00011da3", "\\U00011da4", "\\U00011da5", "\\U00011da6", "\\U00011da7", "\\U00011da8", "\\U00011da9" >>,
       << "\\U00016a60", "\\U00016a61", "\\U00016a62", "\\U00016a63", "\\U00016a64", "\\U00016a65", "\\U00016a66", "\\U00016a67", "\\U00016a68", "\\U00016a69" >>,
       << "\\U00016ac0", "\\U00016ac1", "\\U00016ac2", "\\U00016ac3", "\\U00016ac4", "\\U00016ac5", "\\U00016ac6", "\\U00016ac7", "\\U00016ac8", "\\U00016ac9" >>,
       << "\\U00016b50", "\\U00016b51", "\\U00016b52", "\\U00016b53", "\\U00016b54", "\\U00016b55", "\\U00016b56", "\\U00016b57", "\\U00016b58", "\\U00016b59" >>,
       << "\\U0001d7ce", "\\U0001d7cf", "\\U0001d7d0", "\\U0001d7d1", "\\U0001d7d2", "\\U0001d7d3", "\\U0001d7d4", "\\U0001d7d5", "\\U0001d7d6", "\\U0001d7d7" >>,
       << "\\U0001d7d8", "\\U0001d7d9", "\\U0001d7da", "\\U0001d7db", "\\U0001d7dc", "\\U0001d7dd", "\\U0001d7de", "\\U0001d7df", "\\U0001d7e0", "\\U0001d7e1" >>,
       << "\\U0001d7e2", "\\U0001d7e3", "\\U0001d7e4", "\\U0001d7e5", "\\U0001d7e6", "\\U0001d7e7", "\\U0001d7e8", "\\U0001d7e9", "\\U0001d7ea", "\\U0001d7eb" >>,
       << "\\U0001d7ec", "\\U0001d7ed", "\\U0001d7ee", "\\U0001d7ef", "\\U0001d7f0", "\\U0001d7f1", "\\U0001d7f2", "\\U0001d7f3", "\\U0001d7f4", "\\U0001d7f5" >>,
       << "\\U0001d7f6", "\\U0001d7f7", "\\U0001d7f8", "\\U0001d7f9", "\\U0001d7fa", "\\U0001d7fb", "\\U0001d7fc", "\\U0001d7fd", "\\U0001d7fe", "\\U0001d7ff" >>,
       << "\\U0001e140", "\\U0001e141", "\\U0001e142", "\\U0001e143", "\\U0001e144", "\\U0001e145", "\\U0001e146", "\\U0001e147", "\\U0001e148", "\\U0001e149" >>,
       << "\\U0001e2f0", "\\U0001e2f1", "\\U0001e2f2", "\\U0001e2f3", "\\U0001e2f4", "\\U0001e2f5", "\\U0001e2f6", "\\U0001e2f7", "\\U0001e2f8", "\\U0001e2f9" >>,
       << "\\U0001e950", "\\U0001e951", "\\U0001e952", "\\U0001e953", "\\U0001e954", "\\U0001e955", "\\U0001e956", "\\U0001e957", "\\U0001e958", "\\U0001e959" >>,
       << "\\U0001fbf0", "\\U0001fbf1", "\\U0001fbf2", "\\U0001fbf3", "\\U0001fbf4", "\\U0001fbf5", "\\U0001fbf6", "\\U0001fbf7", "\\U0001fbf8", "\\U0001fbf9" >> >>
DecimalChars == UNION { Elems(DecimalDigits[r]) : r \in 1..Len(DecimalDigits) }
\* the characters str.isdigit() accepts and str.isdecimal() does not (superscripts,
\* circled digits and the like): int() raises ValueError for them
OtherDigits ==
    { "\\xb2", "\\xb3", "\\xb9", "\\u1369", "\\u136a", "\\u136b", "\\u136c", "\\u136d",
      "\\u136e", "\\u136f", "\\u1370", "\\u1371", "\\u19da", "\\u2070", "\\u2074", "\\u2075",
      "\\u2076", "\\u2077", "\\u2078", "\\u2079", "\\u2080", "\\u2081", "\\u2082", "\\u2083",
      "\\u2084", "\\u2085", "\\u2086", "\\u2087", "\\u2088", "\\u2089", "\\u2460", "\\u2461",
      "\\u2462", "\\u2463", "\\u2464", "\\u2465", "\\u2466", "\\u2467", "\\u2468", "\\u2474",
      "\\u2475", "\\u2476", "\\u2477", "\\u2478", "\\u2479", "\\u247a", "\\u247b", "\\u247c",
      "\\u2488", "\\u2489", "\\u248a", "\\u248b", "\\u248c", "\\u248d", "\\u248e", "\\u248f",
      "\\u2490", "\\u24ea", "\\u24f5", "\\u24f6", "\\u24f7", "\\u24f8", "\\u24f9", "\\u24fa",
      "\\u24fb", "\\u24fc", "\\u24fd", "\\u24ff", "\\u2776", "\\u2777", "\\u2778", "\\u2779",
      "\\u277a", "\\u277b", "\\u277c", "\\u277d", "\\u277e", "\\u2780", "\\u2781", "\\u2782",
      "\\u2783", "\\u2784", "\\u2785", "\\u2786", "\\u2787", "\\u2788", "\\u278a", "\\u278b",
      "\\u278c", "\\u278d", "\\u278e", "\\u278f", "\\u2790", "\\u2791", "\\u2792",
      "\\U00010a40", "\\U00010a41", "\\U00010a42", "\\U00010a43", "\\U00010e60", "\\U00010e61",
      "\\U00010e62", "\\U00010e63", "\\U00010e64", "\\U00010e65", "\\U00010e66", "\\U00010e67",
      "\\U00010e68", "\\U00011052", "\\U00011053", "\\U00011054", "\\U00011055", "\\U00011056",
      "\\U00011057", "\\U00011058", "\\U00011059", "\\U0001105a", "\\U0001f100", "\\U0001f101",
      "\\U0001f102", "\\U0001f103", "\\U0001f104", "\\U0001f105", "\\U0001f106", "\\U0001f107",
      "\\U0001f108", "\\U0001f109", "\\U0001f10a" }
\* str.isdigit(): False for the empty string
isdigit(str) == str # << >> /\ Elems(str) \subseteq DecimalChars \cup OtherDigits
\* the value of a decimal digit of any script
digit(c) ==
    (CHOOSE d \in 1..10 : \E r \in 1..Len(DecimalDigits) : DecimalDigits[r][d] = c) - 1
\* int() of a string that isdigit() accepts: ValueError unless every character is a
\* decimal digit
RECURSIVE int_digits(_)
int_digits(str) ==
    IF str = << >> THEN 0
    ELSE 10 * int_digits(SubSeq(str, 1, Len(str) - 1)) + digit(str[Len(str)])
int_of(str) ==
    IF Elems(str) \subseteq DecimalChars THEN int_digits(str) ELSE ValueError
\* str() of a natural number
RECURSIVE str_of(_)
str_of(n) ==
    IF n < 10 THEN << Digits[n + 1] >>
    ELSE Append(str_of(n \div 10), Digits[(n % 10) + 1])

\* the proleptic Gregorian calendar of datetime.date
MINYEAR == 1
MAXYEAR == 9999
is_leap(y) == y % 4 = 0 /\ (y % 100 # 0 \/ y % 400 = 0)
DAYS_IN_MONTH == << 31, 28, 31, 30, 31, 30, 31, 31, 30, 31, 30, 31 >>
days_in_month(y, m) == IF m = 2 /\ is_leap(y) THEN 29 ELSE DAYS_IN_MONTH[m]
RECURSIVE days_before_month(_, _)
days_before_month(y, m) ==
    IF m = 1 THEN 0 ELSE days_before_month(y, m - 1) + days_in_month(y, m - 1)
days_before_year(y) ==
    (y - 1) * 365 + ((y - 1) \div 4) - ((y - 1) \div 100) + ((y - 1) \div 400)
\* line 240: datetime.date(year, month, day) raises ValueError for these
date_ok(y, m, d) ==
    /\ MINYEAR <= y /\ y <= MAXYEAR /\ 1 <= m /\ m <= 12
    /\ 1 <= d /\ d <= days_in_month(y, m)
toordinal(y, m, d) == days_before_year(y) + days_before_month(y, m) + d
\* date.fromordinal, by 400-, 100-, 4- and 1-year cycles
fromordinal(ord) ==
    LET n0 == ord - 1
        n400 == n0 \div 146097
        r400 == n0 % 146097
        n100 == r400 \div 36524
        r100 == r400 % 36524
        n4 == r100 \div 1461
        r4 == r100 % 1461
        n1 == r4 \div 365
        n == r4 % 365
        year == n400 * 400 + 1 + n100 * 100 + n4 * 4 + n1
    IN  IF n1 = 4 \/ n100 = 4
        THEN [year |-> year - 1, month |-> 12, day |-> 31]
        ELSE LET month == CHOOSE m \in 1..12 :
                            /\ days_before_month(year, m) <= n
                            /\ n < days_before_month(year, m) + days_in_month(year, m)
             IN  [year |-> year, month |-> month,
                  day |-> n - days_before_month(year, month) + 1]
MAXORDINAL == toordinal(MAXYEAR, 12, 31)

\* lines 244 and 256: strftime("%b %-d, %Y") ("%b %#d, %Y" on Windows)
MonthAbbr == << << "J", "a", "n" >>, << "F", "e", "b" >>, << "M", "a", "r" >>,
               << "A", "p", "r" >>, << "M", "a", "y" >>, << "J", "u", "n" >>,
               << "J", "u", "l" >>, << "A", "u", "g" >>, << "S", "e", "p" >>,
               << "O", "c", "t" >>, << "N", "o", "v" >>, << "D", "e", "c" >> >>
strftime(dt) ==
    MonthAbbr[dt.month] \o << " " >> \o str_of(dt.day) \o << ",", " " >> \o str_of(dt.year)

\* a correction that subtracts nothing
minus_one_day_not(ord) == ord
\* lines 242 and 252: - datetime.timedelta(days=1), on the day number
minus_one_day(ord) == ord - 1

\* line 248: ts = release_ts or timestamp (None and 0 are falsy)
truthy(opt) == opt # << >> /\ opt[1] # 0
ts_of(timestamp, release_ts) == IF truthy(release_ts) THEN release_ts ELSE timestamp

\* lines 234-246: the upload_date branch; << >> when it does not return
EpochOrdinal == toordinal(1970, 1, 1)
SecondsPerDay == 86400
from_upload_date(upload_date) ==
    IF upload_date = << >> THEN << >>
    ELSE LET str == upload_date[1] IN
         IF ~(Len(str) = 8 /\ isdigit(str)) THEN << >>
         ELSE LET year == int_of(SubSeq(str, 1, 4))
                  month == int_of(SubSeq(str, 5, 6))
                  day == int_of(SubSeq(str, 7, 8))
              \* line 245: a ValueError of int() or of datetime.date is passed over
              IN  IF ~(Elems(str) \subseteq DecimalChars) THEN << >>
                  ELSE IF ~date_ok(year, month, day) THEN << >>
                  ELSE LET ord == minus_one_day(toordinal(year, month, day))
                       IN  IF ord < 1 THEN << >>
                           ELSE Some(strftime(fromordinal(ord)))
\* lines 248-260: the timestamp branch; << >> when it returns None
from_timestamp(timestamp, release_ts) ==
    LET ts == ts_of(timestamp, release_ts) IN
    IF ~truthy(ts) THEN << >>
    ELSE LET ord == minus_one_day(EpochOrdinal + (ts[1] \div SecondsPerDay))
         IN  IF ord < 1 \/ ord + 1 > MAXORDINAL THEN << >>
             ELSE Some(strftime(fromordinal(ord)))
fmt_yt_date(upload_date, timestamp, release_ts) ==
    LET first == from_upload_date(upload_date) IN
    IF first # << >> THEN first ELSE from_timestamp(timestamp, release_ts)

\* one call: line 233-246, then lines 247-261
d_upload ==
    /\ call.fn = "fmt_yt_date" /\ call.pc = "upload_date"
    /\ LET first == from_upload_date(call.upload_date)
       IN  call' = IF first # << >>
                   THEN [call EXCEPT !.pc = "returned", !.result = first]
                   ELSE [call EXCEPT !.pc = "timestamp"]
    /\ UNCHANGED << mainVars, ladder, urls >>
d_timestamp ==
    /\ call.fn = "fmt_yt_date" /\ call.pc = "timestamp"
    /\ call' = [call EXCEPT !.pc = "returned",
                            !.result = from_timestamp(call.timestamp, call.release_ts)]
    /\ UNCHANGED << mainVars, ladder, urls >>

\* ------------------------- get_metadata and get_title_legacy, lines 721-745
\* lines 725 and 741: url = f"https://www.youtube.com/watch?v={video_id}"
watch_url(video_id) ==
    << "h", "t", "t", "p", "s", ":", "/", "/", "w", "w", "w", ".", "y", "o", "u", "t", "u", "b",
    "e", ".", "c", "o", "m", "/", "w", "a", "t", "c", "h", "?", "v", "=" >>
      \o << video_id >>

\* what `yt-dlp -j` can do (line 726): raise inside subprocess.run, or complete with a
\* return code and a stdout whose last line is nothing / not JSON / a JSON value that is
\* not an object / the video's JSON object
JsonObjects ==
    [kind : {"object"},
     title : { << >>, Some(<< >>), Some(ShortTitle) },
     upload_date : { << >>, Some(<< "2", "0", "2", "4", "0", "3", "0", "1" >>),
                     Some(<< "2", "0", "2", "4", "1", "3", "0", "1" >>) },
     timestamp : { << >>, Some(1709251200) },
     release_timestamp : { << >>, Some(86400) }]
NoFields == [title |-> << >>, upload_date |-> << >>, timestamp |-> << >>,
             release_timestamp |-> << >>]
Stdouts ==
    { [kind |-> k] @@ NoFields : k \in {"empty", "blank", "garbage", "scalar"} }
        \cup JsonObjects
JsonOutputs ==
    { [raises |-> TRUE, rc |-> 0, stdout |-> [kind |-> "empty"] @@ NoFields],
      [raises |-> FALSE, rc |-> 1, stdout |-> [kind |-> "empty"] @@ NoFields],
      [raises |-> FALSE, rc |-> 1, stdout |-> [kind |-> "garbage"] @@ NoFields] }
        \cup { [raises |-> FALSE, rc |-> 0, stdout |-> so] : so \in Stdouts }
\* what `yt-dlp --get-title` can do (line 744); text is stdout
TitleOutputs ==
    { [raises |-> TRUE, rc |-> 0, text |-> << >>],
      [raises |-> FALSE, rc |-> 1, text |-> << >>],
      [raises |-> FALSE, rc |-> 1, text |-> << "E", "\n" >>],
      [raises |-> FALSE, rc |-> 0, text |-> << >>],
      [raises |-> FALSE, rc |-> 0, text |-> << "\n" >>],
      [raises |-> FALSE, rc |-> 0, text |-> ShortTitle \o << "\n" >>],
      [raises |-> FALSE, rc |-> 0,
       text |-> << " ", "\r" >> \o ShortTitle \o << " ", "\n", "\n" >>] }
Returned(title, pretty_date) ==
    [kind |-> "return", title |-> title, pretty_date |-> pretty_date]
RaisedOut == [kind |-> "raise", title |-> << >>, pretty_date |-> << >>]

\* lines 723-724: no yt-dlp binary; get_title_legacy then returns the URL at line 743
m_start ==
    /\ call.fn = "get_metadata" /\ call.pc = "start"
    /\ call' = IF ~ytdlp_path
               THEN [call EXCEPT !.pc = "returned",
                                 !.result = Returned(watch_url(call.video_id), << >>)]
               ELSE [call EXCEPT !.pc = "json"]
    /\ UNCHANGED << mainVars, ladder, urls >>

\* lines 726-736: the -j call, json.loads of the last line, data.get and fmt_yt_date
m_json ==
    /\ call.fn = "get_metadata" /\ call.pc = "json"
    /\ \E o \in JsonOutputs :
         LET so == o.stdout
             url == watch_url(call.video_id)
         IN  call' =
               IF o.raises
               THEN [call EXCEPT !.pc = "raised", !.calls = Append(@, o),
                                 !.result = RaisedOut]
               ELSE IF o.rc # 0 \/ so.kind = "empty" \/ so.kind \in {"blank", "garbage"}
               THEN [call EXCEPT !.pc = "legacy", !.calls = Append(@, o)]
               ELSE IF so.kind = "scalar"
               THEN [call EXCEPT !.pc = "raised", !.calls = Append(@, o),
                                 !.result = RaisedOut]
               ELSE [call EXCEPT
                       !.pc = "returned", !.calls = Append(@, o),
                       !.result = Returned(
                           IF so.title # << >> /\ so.title[1] # << >>
                           THEN so.title[1] ELSE url,
                           fmt_yt_date(so.upload_date, so.timestamp,
                                       so.release_timestamp))]
    /\ UNCHANGED << mainVars, ladder, urls >>

\* lines 739-745: get_title_legacy with yt-dlp located, and the return of line 724/730/734
m_legacy ==
    /\ call.fn = "get_metadata" /\ call.pc = "legacy"
    /\ \E o \in TitleOutputs :
         call' =
           IF o.raises
           THEN [call EXCEPT !.pc = "raised", !.calls = Append(@, o),
                             !.result = RaisedOut]
           ELSE [call EXCEPT
                   !.pc = "returned", !.calls = Append(@, o),
                   !.result = Returned(IF o.rc = 0 /\ o.text # << >>
                                       THEN strip(o.text)
                                       ELSE watch_url(call.video_id), << >>)]
    /\ UNCHANGED << mainVars, ladder, urls >>

\* ------------------------- _terminate_ff_proc, one call followed rung by rung
\* Here one call is followed through its four rungs on a process that dies at the
\* rung `dies` (or at none, or by itself at any moment), on Windows (win) or not,
\* and the rungs applied are recorded.
Rungs == << "terminate", "kill", "tree", "name" >>
\* ladder.log: the severity of each self.log.emit made inside the call, in order; lines
\* 646-672 contain no emit, so no rung appends to it
Ladders == { l \in [pc : {"read"}, present : BOOLEAN, running : BOOLEAN,
                     dies : {"terminate", "kill", "tree", "name", "never"},
                     win : BOOLEAN, steps : {<< >>}, log : {<< >>}] :
                 l.running => l.present }
\* the rung r is applied: the process goes on running unless it dies at r
rung(r) == [ladder EXCEPT !.steps = Append(@, r), !.running = @ /\ ladder.dies # r]

\* lines 648-650: proc = self.ff_proc; if not proc or proc.poll() is not None: return
t_read ==
    /\ ladder.pc = "read"
    /\ ladder' = [ladder EXCEPT !.pc = IF ladder.present /\ ladder.running
                                       THEN "terminate" ELSE "done"]
    /\ UNCHANGED << mainVars, urls, call >>

\* lines 651-655: proc.terminate(); proc.wait(timeout=1.0)
t_terminate ==
    /\ ladder.pc = "terminate"
    /\ ladder' = [rung("terminate") EXCEPT !.pc = "kill"]
    /\ UNCHANGED << mainVars, urls, call >>

\* proc.kill() is called whether or not the process is still running
t_kill_always ==
    /\ ladder.pc = "kill"
    /\ ladder' = [rung("kill") EXCEPT !.pc = "tree"]
    /\ UNCHANGED << mainVars, urls, call >>
\* lines 656-661: if proc.poll() is None: proc.kill(); proc.wait(timeout=1.0)
t_kill ==
    /\ ladder.pc = "kill"
    /\ ladder' = IF ladder.running
                 THEN [rung("kill") EXCEPT !.pc = "tree"]
                 ELSE [ladder EXCEPT !.pc = "tree"]
    /\ UNCHANGED << mainVars, urls, call >>

\* lines 662-670, first command: if IS_WIN and proc.poll() is None: taskkill /PID /T /F
t_tree ==
    /\ ladder.pc = "tree"
    /\ ladder' = IF ladder.win /\ ladder.running
                 THEN [rung("tree") EXCEPT !.pc = "poll"]
                 ELSE [ladder EXCEPT !.pc = "done"]
    /\ UNCHANGED << mainVars, urls, call >>

\* lines 671-672: if proc.poll() is not None: break
t_poll ==
    /\ ladder.pc = "poll"
    /\ ladder' = [ladder EXCEPT !.pc = IF ladder.running THEN "name" ELSE "done"]
    /\ UNCHANGED << mainVars, urls, call >>

\* lines 662-672, second command: taskkill /IM ffmpeg.exe /T /F
t_name ==
    /\ ladder.pc = "name"
    /\ ladder' = [rung("name") EXCEPT !.pc = "done"]
    /\ UNCHANGED << mainVars, urls, call >>

\* the process exits by itself while the call is under way
t_exit ==
    /\ ladder.pc \notin {"off", "done"}
    /\ ladder.running
    /\ ladder' = [ladder EXCEPT !.running = FALSE]
    /\ UNCHANGED << mainVars, urls, call >>

\* ------------------------------------------------------- G: the GUI thread
\* MainWindow.on_stop, lines 1758-1776, up to StreamWorker.stop, line 677:
\* self._stop.set(); the buttons are disabled when on_stop returns, and no
\* other GUI event is handled before that
on_stop ==
    /\ gpc = "idle" /\ streaming /\ stop_btn
    /\ stop_ev' = TRUE
    /\ stop_btn' = FALSE
    /\ gpc' = "stop_read"
    /\ hist' = [hist EXCEPT !.stopHit = IF hist.cur \in alive THEN hist.cur ELSE @,
                            !.stop_calls = 1]
    /\ UNCHANGED << cfgVars, skip_ev, ff_proc, cacheVars, loopVars, wpc, loc, wproc,
                    gproc, streaming, skips, pVars, alive, status, finished,
                    pushes, lastPrime >>

\* where the worker is while it resolves an item (lines 949-973), before the overlay
\* text and the command are built
Resolving == { "rov_check_id", "rov_check_vurl", "rov_read_title", "rov_read_date",
               "rov_read_vurl", "rov_read_aurl", "rov_clr_id", "rov_clr_title",
               "rov_clr_date", "rov_clr_vurl", "rov_clr_aurl", "rov_resolve" }

\* a skip() that flips the flag instead of setting it
on_skip_toggle(n) ==
    /\ gpc = "idle" /\ streaming /\ stop_btn
    /\ skips < n
    /\ skips' = skips + 1
    /\ skip_ev' = ~skip_ev
    /\ gpc' = "skip_read"
    /\ hist' = [hist EXCEPT !.skipHit = IF hist.cur \in alive THEN hist.cur ELSE @,
                            !.again = IF skips = 0 THEN @
                                      ELSE IF skip_ev THEN "set" ELSE "clear",
                            !.skipAt = IF wpc \in Resolving \cup {"rov_cooldown"}
                                       THEN "early" ELSE "other"]
    /\ UNCHANGED << cfgVars, stop_ev, ff_proc, cacheVars, loopVars, wpc, loc, wproc,
                    gproc, streaming, stop_btn, pVars, alive, status, finished,
                    pushes, lastPrime >>

\* MainWindow.on_skip, lines 1778-1786, up to StreamWorker.skip, line 684:
\* self._skip.set(); at most n presses are followed
on_skip_upto(n) ==
    /\ gpc = "idle" /\ streaming /\ stop_btn
    /\ skips < n
    /\ skips' = skips + 1
    /\ skip_ev' = TRUE
    /\ gpc' = "skip_read"
    /\ hist' = [hist EXCEPT !.skipHit = IF hist.cur \in alive THEN hist.cur ELSE @,
                            !.again = IF skips = 0 THEN @
                                      ELSE IF skip_ev THEN "set" ELSE "clear",
                            !.skipAt = IF wpc \in Resolving \cup {"rov_cooldown"}
                                       THEN "early" ELSE "other"]
    /\ UNCHANGED << cfgVars, stop_ev, ff_proc, cacheVars, loopVars, wpc, loc, wproc,
                    gproc, streaming, stop_btn, pVars, alive, status, finished,
                    pushes, lastPrime >>
on_skip == on_skip_upto(MaxSkips)
on_skip_again == on_skip_upto(RepeatSkips)

\* MainWindow.on_stop, line 1772, and the connection of line 1754: stopRequested is
\* queued for the worker's thread, whose event loop is inside run() until run returns;
\* stop() is then called a second time there, after the call of line 1767 has returned
stop_queued ==
    /\ wpc = "done" /\ gpc = "idle" /\ hist.stop_calls = 1
    /\ stop_ev' = TRUE
    /\ alive' = alive \ {ff_proc}
    /\ ff_proc' = NoProc
    /\ hist' = [hist EXCEPT !.stop_calls = 2]
    /\ UNCHANGED << cfgVars, skip_ev, cacheVars, loopVars, wpc, loc, wproc, guiVars,
                    pVars, status, finished, pushes, lastPrime >>

\* _terminate_ff_proc called by stop / skip, lines 648-650
gt_read ==
    /\ gpc \in {"stop_read", "skip_read"}
    /\ IF ff_proc = NoProc \/ ff_proc \notin alive
       THEN gproc' = NoProc /\ gpc' = "clear"
       ELSE gproc' = ff_proc /\ gpc' = "term"
    /\ UNCHANGED << cfgVars, stop_ev, skip_ev, ff_proc, cacheVars, loopVars, wpc, loc, wproc,
                    streaming, stop_btn, skips, pVars, alive, status, finished,
                    pushes, lastPrime, hist >>

\* lines 651-655
gt_term ==
    /\ gpc = "term"
    /\ \/ alive' = alive \ {gproc}
       \/ UNCHANGED alive
    /\ gpc' = "kill"
    /\ UNCHANGED << cfgVars, stop_ev, skip_ev, ff_proc, cacheVars, loopVars, wpc, loc, wproc,
                    gproc, streaming, stop_btn, skips, pVars, status, finished,
                    pushes, lastPrime, hist >>

\* lines 656-661: the kill ends the child, or fails or times out
gt_kill ==
    /\ gpc = "kill"
    /\ \/ alive' = alive \ {gproc}
       \/ UNCHANGED alive
    /\ gpc' = "tree"
    /\ UNCHANGED << cfgVars, stop_ev, skip_ev, ff_proc, cacheVars, loopVars, wpc, loc, wproc,
                    gproc, streaming, stop_btn, skips, pVars, status, finished,
                    pushes, lastPrime, hist >>

\* lines 662-670, first command: taskkill /PID on the Windows build
gt_tree ==
    /\ gpc = "tree"
    /\ \/ /\ gpc' = "clear"
          /\ gproc' = NoProc
          /\ UNCHANGED alive
       \/ /\ gproc \in alive
          /\ gpc' = "poll"
          /\ \/ alive' = alive \ {gproc}
             \/ UNCHANGED alive
          /\ UNCHANGED gproc
    /\ UNCHANGED << cfgVars, stop_ev, skip_ev, ff_proc, cacheVars, loopVars, wpc, loc, wproc,
                    streaming, stop_btn, skips, pVars, status, finished,
                    pushes, lastPrime, hist >>

\* lines 671-672
gt_poll ==
    /\ gpc = "poll"
    /\ IF gproc \in alive
       THEN gpc' = "name" /\ UNCHANGED gproc
       ELSE gpc' = "clear" /\ gproc' = NoProc
    /\ UNCHANGED << cfgVars, stop_ev, skip_ev, ff_proc, cacheVars, loopVars, wpc, loc, wproc,
                    streaming, stop_btn, skips, pVars, alive, status, finished,
                    pushes, lastPrime, hist >>

\* lines 663-672, second command: taskkill /IM ffmpeg.exe
gt_name ==
    /\ gpc = "name"
    /\ \E gone \in SUBSET alive : alive' = alive \ gone
    /\ gproc' = NoProc
    /\ gpc' = "clear"
    /\ UNCHANGED << cfgVars, stop_ev, skip_ev, ff_proc, cacheVars, loopVars, wpc, loc, wproc,
                    streaming, stop_btn, skips, pVars, status, finished,
                    pushes, lastPrime, hist >>

\* stop, line 680, and skip, line 687: self.ff_proc = None
g_clear ==
    /\ gpc = "clear"
    /\ ff_proc' = NoProc
    /\ gpc' = "idle"
    /\ UNCHANGED << cfgVars, stop_ev, skip_ev, cacheVars, loopVars, wpc, loc, wproc,
                    gproc, streaming, stop_btn, skips, pVars, alive, status, finished,
                    pushes, lastPrime, hist >>

\* MainWindow.on_finished, lines 1835-1855: the queued finished signal is handled
on_finished ==
    /\ gpc = "idle" /\ streaming /\ wpc = "done"
    /\ streaming' = FALSE
    /\ stop_btn' = FALSE
    /\ UNCHANGED << cfgVars, stop_ev, skip_ev, ff_proc, cacheVars, loopVars, wpc, loc, wproc,
                    gpc, gproc, skips, pVars, alive, status, finished,
                    pushes, lastPrime, hist >>

\* ------------------------------- P: prefetch_next_video._fetch, lines 803-823
\* lines 805-807: get_metadata and get_stream_urls return, or one of them raises
p_resolve ==
    /\ ppc = "p_resolve"
    /\ \/ ppc' = "p_w_id"
       \/ ppc' = "p_c_id"
    /\ UNCHANGED << cfgVars, stop_ev, skip_ev, ff_proc, cacheVars, loopVars, wpc, loc, wproc,
                    guiVars, p_vid, alive, status, finished, pushes, lastPrime, hist >>

\* lines 810-814: the five writes that store the entry
p_w_id ==
    /\ ppc = "p_w_id"
    /\ pf_video_id' = p_vid
    /\ hist' = [hist EXCEPT !.tag_gen = Len(hist.pgen)]
    /\ ppc' = "p_w_title"
    /\ UNCHANGED << cfgVars, stop_ev, skip_ev, ff_proc, pf_title, pf_date, pf_vurl, pf_aurl,
                    loopVars, wpc, loc, wproc, guiVars, p_vid, alive, status,
                    finished, pushes, lastPrime >>
p_w_title ==
    /\ ppc = "p_w_title"
    /\ pf_title' = p_vid
    /\ ppc' = "p_w_date"
    /\ UNCHANGED << cfgVars, stop_ev, skip_ev, ff_proc, pf_video_id, pf_date, pf_vurl, pf_aurl,
                    loopVars, wpc, loc, wproc, guiVars, p_vid, alive, status,
                    finished, pushes, lastPrime, hist >>
p_w_date ==
    /\ ppc = "p_w_date"
    /\ pf_date' = p_vid
    /\ ppc' = "p_w_vurl"
    /\ UNCHANGED << cfgVars, stop_ev, skip_ev, ff_proc, pf_video_id, pf_title, pf_vurl, pf_aurl,
                    loopVars, wpc, loc, wproc, guiVars, p_vid, alive, status,
                    finished, pushes, lastPrime, hist >>
p_w_vurl ==
    /\ ppc = "p_w_vurl"
    /\ pf_vurl' = p_vid
    /\ ppc' = "p_w_aurl"
    /\ UNCHANGED << cfgVars, stop_ev, skip_ev, ff_proc, pf_video_id, pf_title, pf_date, pf_aurl,
                    loopVars, wpc, loc, wproc, guiVars, p_vid, alive, status,
                    finished, pushes, lastPrime, hist >>
p_w_aurl ==
    /\ ppc = "p_w_aurl"
    /\ pf_aurl' = p_vid
    /\ ppc' = "p_written"
    /\ UNCHANGED << cfgVars, stop_ev, skip_ev, ff_proc, pf_video_id, pf_title, pf_date, pf_vurl,
                    loopVars, wpc, loc, wproc, guiVars, p_vid, alive, status,
                    finished, pushes, lastPrime, hist >>

\* lines 816-823: the five writes that clear the cache after a failed resolution
p_c_id ==
    /\ ppc = "p_c_id"
    /\ pf_video_id' = None
    /\ hist' = [hist EXCEPT !.tag_gen = 0]
    /\ ppc' = "p_c_title"
    /\ UNCHANGED << cfgVars, stop_ev, skip_ev, ff_proc, pf_title, pf_date, pf_vurl, pf_aurl,
                    loopVars, wpc, loc, wproc, guiVars, p_vid, alive, status,
                    finished, pushes, lastPrime >>
p_c_title ==
    /\ ppc = "p_c_title"
    /\ pf_title' = None
    /\ ppc' = "p_c_date"
    /\ UNCHANGED << cfgVars, stop_ev, skip_ev, ff_proc, pf_video_id, pf_date, pf_vurl, pf_aurl,
                    loopVars, wpc, loc, wproc, guiVars, p_vid, alive, status,
                    finished, pushes, lastPrime, hist >>
p_c_date ==
    /\ ppc = "p_c_date"
    /\ pf_date' = None
    /\ ppc' = "p_c_vurl"
    /\ UNCHANGED << cfgVars, stop_ev, skip_ev, ff_proc, pf_video_id, pf_title, pf_vurl, pf_aurl,
                    loopVars, wpc, loc, wproc, guiVars, p_vid, alive, status,
                    finished, pushes, lastPrime, hist >>
p_c_vurl ==
    /\ ppc = "p_c_vurl"
    /\ pf_vurl' = None
    /\ ppc' = "p_c_aurl"
    /\ UNCHANGED << cfgVars, stop_ev, skip_ev, ff_proc, pf_video_id, pf_title, pf_date, pf_aurl,
                    loopVars, wpc, loc, wproc, guiVars, p_vid, alive, status,
                    finished, pushes, lastPrime, hist >>
\* the last of the five fields is left as it is
p_c_aurl_keep ==
    /\ ppc = "p_c_aurl"
    /\ ppc' = "p_return"
    /\ UNCHANGED << cfgVars, stop_ev, skip_ev, ff_proc, cacheVars,
                    loopVars, wpc, loc, wproc, guiVars, p_vid, alive, status,
                    finished, pushes, lastPrime, hist >>
p_c_aurl ==
    /\ ppc = "p_c_aurl"
    /\ pf_aurl' = None
    /\ ppc' = "p_return"
    /\ UNCHANGED << cfgVars, stop_ev, skip_ev, ff_proc, pf_video_id, pf_title, pf_date, pf_vurl,
                    loopVars, wpc, loc, wproc, guiVars, p_vid, alive, status,
                    finished, pushes, lastPrime, hist >>

\* _fetch returns (after the log line 815, or after line 823): the thread ends, and
\* only from here on is_alive() is False
p_return ==
    /\ ppc \in {"p_written", "p_return"}
    /\ ppc' = "dead"
    /\ hist' = [hist EXCEPT !.live = @ - 1]
    /\ UNCHANGED << cfgVars, stop_ev, skip_ev, ff_proc, cacheVars,
                    loopVars, wpc, loc, wproc, guiVars, p_vid, alive, status,
                    finished, pushes, lastPrime >>

\* ------------------------------------------------ the ffmpeg child processes
\* a running child exits by itself: end of the media, or an error of its own
proc_exit ==
    /\ \E p \in alive : alive' = alive \ {p}
    /\ UNCHANGED << cfgVars, stop_ev, skip_ev, ff_proc, cacheVars, loopVars, wpc, loc, wproc,
                    guiVars, pVars, status, finished, pushes, lastPrime, hist >>

\* ------------------------------------------------------------ specifications
WorkerNext ==
    \/ run_start \/ select_encoder \/ preflight_first \/ preflight_fallback
    \/ loop_top \/ backoff \/ for_top \/ prefetch_next_video \/ pass_end
    \/ exc_handler \/ after_item
    \/ rov_check_id \/ rov_resolve \/ rov_launch \/ rov_popen \/ rov_store \/ rov_readers
    \/ rov_poll \/ rov_poll2 \/ rov_after_poll \/ rov_flush \/ rov_flush2 \/ rov_read
    \/ rov_cooldown

\* the worker's steps once it has seen stop or skip set
AbortNext == emit_stopped \/ wt_read \/ wt_term \/ wt_kill \/ wt_tree \/ wt_poll \/ wt_name

\* the worker's steps on a cache entry whose tag matches
CacheNext ==
    \/ rov_check_vurl
    \/ rov_read_title \/ rov_read_date \/ rov_read_vurl \/ rov_read_aurl
    \/ rov_clr_id \/ rov_clr_title \/ rov_clr_date \/ rov_clr_vurl \/ rov_clr_aurl

StopNext ==
    \/ on_stop \/ gt_read \/ gt_term \/ gt_kill \/ gt_tree \/ gt_poll \/ gt_name \/ g_clear
    \/ on_finished

GuiNext == on_skip \/ StopNext

PrefetchNext ==
    \/ p_resolve \/ p_w_id \/ p_w_title \/ p_w_date \/ p_w_vurl \/ p_w_aurl
    \/ p_c_id \/ p_c_title \/ p_c_date \/ p_c_vurl \/ p_c_aurl \/ p_return

RtmpsEndpoint == { e \in Endpoints : SubSeq(e.base, 1, 5) = Rtmps }
Located == { << TRUE, TRUE >> }
Binaries == BOOLEAN \X BOOLEAN

\* One run with all three threads: Start was pressed, the user may press Skip
\* and Stop at any moment.
Init == InitFor(RtmpsEndpoint, {FALSE}, Located, DefaultConfig) /\ NoAux
Next == fetch \/ WorkerNext \/ AbortNext \/ CacheNext \/ GuiNext \/ PrefetchNext \/ proc_exit
Spec == Init /\ [][Next]_vars

\* One run in which Stop may be pressed at any moment and Skip is not pressed,
\* with and without shuffle, with and without each of the two binaries; the playlist
\* is empty or holds two videos.
InitStop == InitFor(RtmpsEndpoint, BOOLEAN, Binaries, DefaultConfig) /\ NoAux
NextStop == fetch_pair \/ WorkerNext \/ AbortNext \/ CacheNext \/ StopNext \/ PrefetchNext \/ proc_exit
SpecStop == InitStop /\ [][NextStop]_vars

\* One run in which Stop may be pressed at any moment, with the scheduling the threads
\* have: the worker thread takes its next step whenever it has one (every yt-dlp and
\* ffmpeg invocation it waits for returns), and the child whose output the worker
\* reads to its end at line 1043 exits (child_eof: an invocation that returns).
\* Nothing else is assumed: not of the GUI thread, not of the prefetch thread, not
\* of a child the worker is not waiting for, not of the success of a kill.
WorkerStep == fetch_pair \/ fetch_stopping \/ WorkerNext \/ AbortNext \/ CacheNext
child_eof == wpc = "rov_read" /\ proc_exit /\ wproc \notin alive'
NextLive == WorkerStep \/ StopNext \/ PrefetchNext \/ proc_exit
SpecLive == Init /\ [][NextLive]_vars /\ WF_vars(WorkerStep) /\ WF_vars(child_eof)

\* One run over a playlist of one video in which Skip is pressed up to RepeatSkips times
\* and the Stop press is followed to the second stop() call it causes.
NextRepeat ==
    \/ fetch_solo \/ WorkerNext \/ AbortNext \/ on_skip_again \/ StopNext \/ stop_queued
    \/ proc_exit
SpecRepeat == Init /\ [][NextRepeat]_vars

\* One run over a playlist of one video, for which prefetch_next_video is never
\* called: the worker and the GUI thread, Skip and Stop at any moment.
NextSolo == fetch_solo \/ WorkerNext \/ AbortNext \/ GuiNext \/ proc_exit
SpecSolo == Init /\ [][NextSolo]_vars

\* MainWindow.on_start, lines 1738-1756: self.streaming = True, the buttons, a new
\* StreamWorker (lines 421-436: fresh _stop and _skip events, no process, an empty
\* cache) over the configuration make_config reads from the window at this press
\* (line 1714, lines 1547-1563), and its thread started on run.
\* hist.workers counts the workers created; get_video_ids calls and Skip presses
\* are counted over the whole application, and the processes left by an earlier
\* worker stay alive. The new worker has no prefetch thread (line 436); a thread the
\* worker before it left goes on with that worker's fields, which are followed no more.
make_config(w) ==
    [rtmp_base |-> strip(w.rtmp_edit), stream_key |-> strip(w.key_edit), fps |-> w.fps,
     overlay_titles |-> w.overlay_chk, shuffle |-> w.shuffle_chk]
start_worker(n) ==
    /\ hist.workers < n
    /\ LET cfg == make_config(window)
       IN  \* line 1715: without a stream URL or a stream key the press only shows a message
           /\ cfg.rtmp_base # << >> /\ cfg.stream_key # << >>
           /\ rtmp_base' = cfg.rtmp_base /\ stream_key' = cfg.stream_key
           /\ fps' = cfg.fps /\ overlay_titles' = cfg.overlay_titles
           /\ shuffle' = cfg.shuffle
    /\ streaming' = TRUE /\ stop_btn' = TRUE
    /\ \E b \in Binaries : ffmpeg_path' = b[1] /\ ytdlp_path' = b[2]
    /\ encoder' = "libx264" /\ encoder_name' = "CPU x264" /\ pix_fmt' = "yuv420p"
    /\ extra_venc_flags' = << >> /\ probed' = << >>
    /\ stop_ev' = FALSE /\ skip_ev' = FALSE
    /\ ff_proc' = NoProc
    /\ pf_video_id' = None /\ pf_title' = None /\ pf_date' = None
    /\ pf_vurl' = None /\ pf_aurl' = None
    /\ wpc' = "run_start" /\ ids' = << >> /\ idx' = 0 /\ tick' = 0
    /\ loc' = NoLoc /\ wproc' = NoProc
    /\ status' = << >> /\ finished' = 0
    /\ fetched' = << >> /\ visited' = << >> /\ pushes' = << >>
    /\ lastPrime' = None
    /\ hist' = [NoHist EXCEPT !.workers = hist.workers + 1, !.ignored = hist.ignored]
    /\ ppc' = "dead" /\ p_vid' = None
    /\ UNCHANGED << probes, meta, window, auxVars, gpc, gproc, skips, alive, fetches >>

\* MainWindow.on_quality_change, lines 1530-1545, for a change of fps_combo: _fps
\* follows the combo box at any moment, with or without a worker running
on_quality_change ==
    /\ gpc = "idle"
    /\ \E framerate \in Fps \ {window.fps} : window' = [window EXCEPT !.fps = framerate]
    /\ UNCHANGED << rtmp_base, stream_key, shuffle, ffmpeg_path, ytdlp_path, encVars,
                    fps, overlay_titles, probes, meta, auxVars, stop_ev, skip_ev, ff_proc,
                    cacheVars, loopVars, wpc, loc, wproc, guiVars, pVars, alive, status,
                    finished, pushes, lastPrime, hist >>

\* on_start without the test of line 1712
on_start_always(n) ==
    /\ gpc = "idle"
    /\ start_worker(n)

\* MainWindow.on_start, lines 1710-1756: a press while streaming returns at line 1713
\* (hist.ignored marks it); otherwise a worker is created; at most n workers
on_start_upto(n) ==
    /\ gpc = "idle"
    /\ IF streaming
       THEN /\ ~hist.ignored
            /\ hist' = [hist EXCEPT !.ignored = TRUE]
            /\ UNCHANGED << cfgVars, stop_ev, skip_ev, ff_proc, cacheVars, loopVars, wpc,
                            loc, wproc, guiVars, pVars, alive, status, finished,
                            pushes, lastPrime >>
       ELSE start_worker(n)
on_start == on_start_upto(MaxRuns)

\* The application over several Start presses: a playlist of one video, the
\* user may press Start, Skip and Stop at any moment.
\* the window holds an rtmp stream URL: a worker can go over to rtmps for its run
RunEndpoints ==
    { e \in Endpoints : e.base = << "r", "t", "m", "p", ":", "/", "/", "h", "o", "s", "t", "/", "l", "i", "v", "e", "2" >> }
InitRuns == InitFor(RunEndpoints, {FALSE}, Binaries, DefaultConfig) /\ NoAux
NextRuns ==
    \/ fetch_solo_runs \/ WorkerNext \/ AbortNext \/ GuiNext \/ on_start \/ on_quality_change
    \/ proc_exit
SpecRuns == InitRuns /\ [][NextRuns]_vars

\* One run of the worker alone over a playlist of one video, for every configuration.
InitConfig == InitFor(RtmpsEndpoint, {FALSE}, Located, Configs) /\ NoAux
NextConfig == fetch_solo \/ WorkerNext \/ proc_exit
SpecConfig == InitConfig /\ [][NextConfig]_vars

\* One connectivity test (the Test RTMP button, pressed while nothing is streaming), for
\* every endpoint, with and without each binary, for every outcome of the codec probes.
TestConfigs == [fps : {30}, overlay_titles : {TRUE},
                probes : SUBSET {Encoders[i] : i \in 1..Len(Encoders)},
                meta : {[title |-> ShortTitle, date |-> ShortDate]}]
InitTest == InitAt(Endpoints, {FALSE}, Binaries, TestConfigs, "test_select", FALSE) /\ NoAux
NextTest == test_select_encoder \/ test_preflight
SpecTest == InitTest /\ [][NextTest]_vars

\* One call of fmt_yt_date, for upload dates and timestamps of every kind.
UploadDates ==
    { << >>, Some(<< >>) } \cup
    { Some(<< c[1], c[2], c[3], c[4], c[5], c[6], c[7], c[8] >>) :
        c \in { << "2", "0", "2", "4", "0", "3", "0", "1" >>,
                << "2", "0", "2", "3", "0", "3", "0", "1" >>,
                << "1", "9", "0", "0", "0", "3", "0", "1" >>,
                << "2", "0", "0", "0", "0", "3", "0", "1" >>,
                << "2", "0", "2", "5", "0", "1", "0", "1" >>,
                << "2", "0", "2", "4", "1", "2", "3", "1" >>,
                << "2", "0", "2", "4", "0", "9", "0", "4" >>,
                << "2", "0", "2", "4", "0", "2", "3", "0" >>,
                << "2", "0", "2", "4", "1", "3", "0", "1" >>,
                << "2", "0", "2", "4", "0", "0", "1", "0" >>,
                << "2", "0", "2", "4", "0", "6", "0", "0" >>,
                << "0", "0", "0", "0", "0", "1", "0", "1" >>,
                << "0", "0", "0", "1", "0", "1", "0", "1" >>,
                << "0", "0", "0", "1", "0", "1", "0", "2" >>,
                << "2", "0", "2", "4", "0", "9", "x", "4" >>,
                << "\\uff12", "\\uff10", "\\uff12", "\\uff14", "\\uff10", "\\uff19", "\\uff10", "\\uff14" >>,
                << "\\u0661", "\\u0662", "\\u0663", "\\u0664", "\\u0660", "\\u0665", "\\u0660", "\\u0666" >>,
                << "0", "0", "0", "1", "0", "1", "0", "\\uff12" >>,
                << "2", "0", "2", "4", "0", "9", "0", "\\xb2" >> } } \cup
    { Some(<< "2", "0", "2", "4", "0", "9" >>),
      Some(<< "2", "0", "2", "4", "0", "9", "0", "4", "0" >>) }
Timestamps ==
    { << >>, Some(0), Some(86399), Some(86400), Some(951868800), Some(1709251199),
      Some(1709251200), Some(1735689600) }
InitDate ==
    /\ InitFor(RtmpsEndpoint, {FALSE}, Located, DefaultConfig)
    /\ ladder = NoLadder /\ urls = NoUrls
    /\ \E u \in UploadDates, t \in Timestamps, r \in Timestamps :
         call = [fn |-> "fmt_yt_date", pc |-> "upload_date", upload_date |-> u,
                 timestamp |-> t, release_ts |-> r, result |-> << >>]
NextDate == d_upload \/ d_timestamp
SpecDate == InitDate /\ [][NextDate]_vars

\* One call of get_metadata, for every behaviour of the yt-dlp calls it makes.
InitMeta ==
    /\ InitFor(RtmpsEndpoint, {FALSE}, Binaries, DefaultConfig)
    /\ ladder = NoLadder /\ urls = NoUrls
    /\ \E v \in {"a", "b"} :
         call = [fn |-> "get_metadata", pc |-> "start", video_id |-> v, calls |-> << >>,
                 result |-> [kind |-> "none", title |-> << >>, pretty_date |-> << >>]]
NextMeta == m_start \/ m_json \/ m_legacy
SpecMeta == InitMeta /\ [][NextMeta]_vars

\* One call of get_stream_urls, for every behaviour of the yt-dlp calls it makes.
InitUrls == InitFor(RtmpsEndpoint, {FALSE}, Binaries, DefaultConfig)
               /\ ladder = NoLadder /\ urls = [NoUrls EXCEPT !.pc = "start"]
               /\ call = NoCall
NextUrls == u_start \/ u_hls \/ u_fmt \/ u_plain
SpecUrls == InitUrls /\ [][NextUrls]_vars

\* One call of _terminate_ff_proc, for every kind of process and platform.
InitLadder == InitFor(RtmpsEndpoint, {FALSE}, Located, DefaultConfig)
                 /\ ladder \in Ladders /\ urls = NoUrls /\ call = NoCall
NextLadder == t_read \/ t_terminate \/ t_kill \/ t_tree \/ t_poll \/ t_name \/ t_exit
SpecLadder == InitLadder /\ [][NextLadder]_vars

\* One run in which no button is pressed: the worker and the prefetch thread.
NextQuiet == fetch_quiet \/ WorkerNext \/ CacheNext \/ PrefetchNext \/ proc_exit
SpecQuiet == Init /\ [][NextQuiet]_vars

\* One run in which no button is pressed, over the playlist [a, b, c].
NextTrio == fetch_trio \/ WorkerNext \/ CacheNext \/ PrefetchNext \/ proc_exit
SpecTrio == Init /\ [][NextTrio]_vars

\* One run in which no button is pressed, for every configured endpoint, followed
\* through its first pass; the playlist is empty or holds two videos.
InitEndpoints == InitFor(Endpoints, {FALSE}, Located, DefaultConfig) /\ NoAux
NextEndpoints == fetch_pair \/ WorkerNext \/ CacheNext \/ PrefetchNext \/ proc_exit
SpecEndpoints == InitEndpoints /\ [][NextEndpoints]_vars

\* One run in which no button is pressed, for every configured endpoint of scheme
\* rtmp (the ones preflight_rtmp retries over rtmps), followed into its second pass.
RtmpEndpoints == { e \in Endpoints : SubSeq(e.base, 1, 5) = Rtmp \o << ":" >> }
InitRetry == InitFor(RtmpEndpoints, {FALSE}, Located, DefaultConfig) /\ NoAux
NextRetry == fetch_pair_quiet \/ WorkerNext \/ CacheNext \/ PrefetchNext \/ proc_exit
SpecRetry == InitRetry /\ [][NextRetry]_vars

\* ---------------------------------------------------------------- properties
Range(f) == { f[i] : i \in DOMAIN f }
IsPrefix(s, t) == Len(s) <= Len(t) /\ \A i \in 1..Len(s) : s[i] = t[i]
Started == "Starting" \in Range(status)
InPass == wpc \notin {"run_start", "preflight", "pre_fallback", "loop_top", "fetch",
                      "backoff", "emit_stopped", "done"}

\* C1: in a pass run_one_video is called for the list positions one by one in the
\* order of ids, so a pass that reaches the end of the for loop with stop not
\* set has called it exactly once per position; ids is the fetched list when
\* shuffle is off and a permutation of it when shuffle is on.
C1_EachPositionOnceInOrder ==
    /\ InPass => /\ IsPrefix(visited, ids)
                 /\ Len(visited) \in {idx - 1, idx}
                 /\ IsPerm(ids, fetched)
                 /\ ~shuffle => ids = fetched
    /\ wpc = "pass_end" => visited = ids
C1_Witness ==
    wpc = "pass_end" /\ shuffle /\ ids # fetched /\ visited = ids /\ Len(ids) = 2

\* C2: at most one ffmpeg child launched by the worker is alive at any time.
C2_AtMostOneProcessAlive == Cardinality(alive) <= 1

\* C3 (as claimed): the cache check of run_one_video(id) yields cached data if and
\* only if the latest prefetch_next_video call was for id and its entry was not
\* used and cleared before.
C3_HitIffLatestPrime ==
    /\ wpc = "rov_read_title" => (lastPrime = vid /\ ~hist.consumed)
    /\ wpc = "rov_resolve" => ~(lastPrime = vid /\ ~hist.consumed)
\* C3 (amended): every use of a cached entry by run_one_video(id) takes an entry
\* whose tag a prefetch thread started for id wrote, and no thread's entry is
\* used twice.
C3_EntryOfSameIdUsedOnce ==
    /\ \A i \in 1..Len(hist.used) :
         /\ hist.used[i][1] \in 1..Len(hist.pgen)
         /\ hist.pgen[hist.used[i][1]] = hist.used[i][2]
    /\ \A i, j \in 1..Len(hist.used) : i # j => hist.used[i][1] # hist.used[j][1]
C3_Witness ==
    wpc = "rov_launch" /\ loc.src = "cache" /\ Len(hist.used) = 2

\* C4: the title, date, video and audio location a run_one_video(id) call takes
\* from the cache all come from the resolution of id.
C4_CachedFieldsOfSameId ==
    (loc.src = "cache" /\ wpc \in {"rov_clr_id", "rov_launch", "rov_popen"}) =>
        /\ loc.title \in {vid, None}
        /\ loc.pretty_date \in {vid, None}
        /\ loc.vurl \in {vid, None}
        /\ loc.aurl \in {vid, None}

\* C5: after an item has failed (resolution failure, or an exception raised in
\* run_one_video) the worker is handling the failure, is at the head of the
\* for loop at the next position, or has seen stop set; and the loop is left
\* for Stopped only when stop is set.
C5_ItemFailureNeverEndsRun ==
    /\ (Started /\ wpc \in {"emit_stopped", "done"}) => stop_ev
    /\ hist.failed # 0 =>
         /\ wpc \in {"exc_handler", "after_item", "for_top", "emit_stopped", "done"}
         /\ wpc = "for_top" => idx = hist.failed + 1
C5_Witness ==
    wpc = "for_top" /\ hist.failed = 1 /\ idx = 2 /\ ~stop_ev /\ Len(ids) = 2

\* C6: when the first preflight push fails, an rtmp URL is retried exactly once,
\* at the same host and path with scheme rtmps and port 443, and any other URL
\* is not retried and the preflight fails.
C6_RetryOnceAtSameHost ==
    (hist.pre1 = "failed" /\ wpc \notin {"preflight", "pre_fallback"}) =>
        LET url == pushes[1]
            scheme == Lower(SubSeq(url, 1, find(url, ":", 1) - 1))
            u == urlparse(url)
        IN  IF scheme = Rtmp
            THEN /\ Len(pushes) = 2
                 /\ u # ValueError
                 /\ pushes[2] = Rtmps \o << ":", "/", "/" >> \o HostOf(u.netloc)
                                    \o << ":", "4", "4", "3" >> \o u.path
            ELSE /\ Len(pushes) = 1
                 /\ wpc = "done" /\ ~Started

\* C7: once the rtmps retry has succeeded, cfg.rtmp_url() is the rtmps URL that
\* succeeded, and every command built pushes to it and not to the first URL.
C7_RtmpsUrlKept ==
    hist.rtmps_ok # << >> =>
        /\ rtmp_url(rtmp_base, stream_key) = hist.rtmps_ok
        /\ hist.rtmps_ok = pushes[2] /\ hist.rtmps_ok # pushes[1]
        /\ wpc = "rov_popen" => loc.out_url = hist.rtmps_ok
C7_Witness ==
    wpc = "rov_popen" /\ hist.rtmps_ok # << >> /\ idx = 2 /\ fetches = 2

\* C8: when stop is set while the item's process is running, the process is no
\* longer running when run_one_video has returned.
C8_StopLeavesNoProcess ==
    (wpc = "after_item" /\ hist.cur # NoProc /\ hist.stopHit = hist.cur) =>
        hist.cur \notin alive

\* C9: a skip requested while the item's process is running terminates that
\* process and does not stop the run.
C9_SkipTerminatesItem ==
    (hist.cur # NoProc /\ hist.skipHit = hist.cur) =>
        /\ wpc = "after_item" => hist.cur \notin alive
        /\ wpc \in {"emit_stopped", "done"} => stop_ev

\* C10: stop, once set, stays set; skip, once set, is cleared only by
\* run_one_video's step before the launch of a process.
C10_FlagsClearedOnlyAtLaunch ==
    [][ /\ stop_ev => stop_ev'
        /\ (skip_ev /\ ~skip_ev') => (wpc = "rov_launch" /\ wpc' = "rov_popen") ]_vars
C10_Witness ==
    wpc = "rov_popen" /\ skips = 1 /\ ~skip_ev /\ stop_ev /\ fetches = 2

\* C11: in a pass every launch of a process is followed by the 2-second sleep before
\* the next launch and before the list is fetched again; for the list [a, b, c] with
\* every item streamed the events are a, cool-down, b, cool-down, c, cool-down.
C11_CoolDownAfterEveryStream ==
    LET ev == hist.events
    IN  /\ \A i \in 1..(Len(ev) - 1) : ev[i] # "cool" => ev[i + 1] = "cool"
        /\ (wpc \in {"rov_popen", "pass_end"} /\ ev # << >>) => ev[Len(ev)] = "cool"
        /\ (wpc = "pass_end" /\ Len(ev) = 2 * Len(ids)) =>
               \A i \in 1..Len(ids) : ev[2 * i - 1] = ids[i] /\ ev[2 * i] = "cool"
C11_Witness ==
    wpc = "pass_end" /\ hist.events = << "a", "cool", "b", "cool", "c", "cool" >>

\* C12: the encoder probe precedes the preflight, which precedes the first fetch; with
\* ffmpeg or yt-dlp missing the run emits finished once with no probe, no preflight and
\* no fetch; when the preflight returns False the run emits status Stopped and finished
\* with no fetch, no prefetch and no launch.
PreflightFailed ==
    hist.pre1 = "failed" /\ wpc # "pre_fallback" /\ hist.rtmps_ok = << >>
C12_StartupOrder ==
    /\ IsPrefix(hist.phases, << "probe", "preflight", "fetch" >>)
    /\ fetches > 0 => Len(hist.phases) = 3
    /\ pushes # << >> => Len(hist.phases) >= 2
    /\ (~ffmpeg_path \/ ~ytdlp_path) =>
          /\ wpc \in {"run_start", "done"}
          /\ wpc = "done" <=> finished = 1
          /\ hist.phases = << >> /\ pushes = << >> /\ fetches = 0 /\ status = << >>
          /\ encoder = "libx264"
    /\ PreflightFailed =>
          /\ wpc = "done" /\ finished = 1 /\ status = << "Stopped" >>
          /\ hist.phases = << "probe", "preflight" >>
          /\ fetches = 0 /\ hist.pgen = << >> /\ hist.events = << >> /\ alive = {}
C12_Witness ==
    PreflightFailed /\ wpc = "done" /\ status = << "Stopped" >> /\ Len(pushes) = 1

\* C13: the overlay text written for an item is at most 75 characters long and, when a
\* date is present, ends with the whole date suffix, for every title and every date
\* that fmt_yt_date returns.
C13_OverlayWithinBudget ==
    (wpc = "rov_popen" /\ overlay_titles) =>
        LET t == loc.overlay_text
            suffix == Bullet \o meta.date
        IN  /\ Len(t) <= MAX_LEN
            /\ meta.date # << >> =>
                  /\ Len(t) >= Len(suffix)
                  /\ SubSeq(t, Len(t) - Len(suffix) + 1, Len(t)) = suffix
\* the longest title with the longest date: the title is cut and the text fills the budget
C13_Witness ==
    /\ wpc = "rov_popen" /\ overlay_titles
    /\ meta.title = Chars(MaxTitle, "x") /\ meta.date = LongDate
    /\ Len(loc.overlay_text) = MAX_LEN
    /\ SubSeq(loc.overlay_text, 58, 60) = Ellipsis

\* C14: in the preflight commands and in every stream command the worker builds, the
\* values of -g and of -keyint_min are exactly twice the configured frame rate.
C14_GopTwiceFrameRate ==
    /\ \A c \in hist.gops : c.g = 2 * fps /\ c.keyint_min = 2 * fps
    /\ wpc = "rov_popen" => loc.gop = 2 * fps /\ loc.keyint_min = 2 * fps
C14_Witness ==
    /\ fps = 60 /\ wpc = "rov_popen"
    /\ hist.gops = { [cmd |-> "preflight", g |-> 120, keyint_min |-> 120],
                     [cmd |-> "stream", g |-> 120, keyint_min |-> 120] }

\* C15: at most one prefetch thread is in flight; a call of prefetch_next_video made
\* while the previous thread is alive starts no thread and is not queued, and every
\* identifier written to the cache is the one of the thread started last.
C15_OnePrefetchInFlight ==
    [][ /\ hist'.live <= 1
        /\ hist'.live = (IF ppc' = "dead" THEN 0 ELSE 1)
        /\ (wpc = "prefetch_call" /\ wpc' # wpc /\ ppc # "dead") =>
              /\ ppc' = ppc /\ p_vid' = p_vid
              /\ hist'.pgen = hist.pgen /\ hist'.live = hist.live
        /\ (pf_video_id' # pf_video_id /\ pf_video_id' # None) =>
              /\ ppc # "dead"
              /\ pf_video_id' = hist.pgen[Len(hist.pgen)]
        /\ (ppc = "dead" /\ ppc' # "dead") => wpc = "prefetch_call" ]_vars
C15_Witness ==
    /\ idx = 2 /\ lastPrime = "c" /\ hist.pgen = << "b" >>
    /\ ppc = "dead" /\ pf_video_id = "b"

\* C16: an entry cached for another identifier than the one checked is not used for it,
\* and once the check of line 950 has been made the cache no longer holds that entry.
C16_MismatchedEntryDropped ==
    /\ (loc.src = "cache" /\ wpc = "rov_launch") => loc.gen # 0
    /\ (wpc = "rov_resolve" /\ loc.seen # 0) =>
          ~(pf_video_id # None /\ hist.tag_gen = loc.seen)

\* C17: after an empty list the worker sleeps one second at most 30 times, each time
\* only if stop is not set; the wait ends after the 30th tick or as soon as stop is seen
\* set, and the loop then fetches again, unless stop is set, in which case the run emits
\* Stopped without another fetch.
C17_EmptyListBackoff ==
    [][ /\ tick' <= BackoffTicks
        /\ stop_ev => stop_ev'
        /\ (wpc = "fetch" /\ wpc' # wpc /\ ids' = << >>) => wpc' = "backoff" /\ tick' = 0
        /\ (wpc = "backoff" /\ tick' # tick) =>
              ~stop_ev /\ tick < BackoffTicks /\ tick' = tick + 1 /\ wpc' = "backoff"
        /\ (wpc = "backoff" /\ wpc' # wpc) =>
              (stop_ev \/ tick = BackoffTicks) /\ wpc' = "loop_top"
        /\ (wpc = "loop_top" /\ wpc' # wpc) =>
              wpc' = (IF stop_ev THEN "emit_stopped" ELSE "fetch")
        /\ (wpc = "emit_stopped" /\ wpc' # wpc) =>
              wpc' = "done" /\ status' = Append(status, "Stopped") /\ fetches' = fetches
        /\ fetches' # fetches => wpc = "fetch" ]_vars
C17_Witness ==
    /\ wpc = "loop_top" /\ hist.wait = "empty" /\ ids = << >> /\ stop_ev
    /\ tick > 0 /\ tick < BackoffTicks /\ fetches = 1

\* C18: run emits finished once, exactly when it returns, on each of its paths (a binary
\* missing, the preflight failed, the loop left on stop); once finished is emitted the
\* worker fetches no list, starts no prefetch thread and launches no process.
C18_FinishedIsTerminal ==
    [][ /\ finished' <= 1
        /\ (wpc' = "done") <=> (finished' = 1)
        /\ finished' # finished =>
              /\ wpc \in {"run_start", "pre_fallback", "emit_stopped"}
              /\ wpc = "run_start" => status' = << >>
              /\ wpc # "run_start" => status'[Len(status')] = "Stopped"
        /\ finished = 1 =>
              /\ finished' = 1 /\ wpc' = "done"
              /\ fetches' = fetches /\ hist'.pgen = hist.pgen /\ hist'.live <= hist.live
              /\ alive' \subseteq alive /\ hist'.events = hist.events
              /\ pushes' = pushes /\ status' = status ]_vars
C18_Witness ==
    /\ finished = 1 /\ wpc = "done" /\ fetches = 1 /\ Len(hist.events) > 0
    /\ status = << "Starting", "Stopped" >>

\* C19: when an item ended in an error (its resolution failed, or run_one_video raised),
\* the 2-second delay was performed before the loop goes on to the next identifier.
C19_DelayAfterItemError ==
    (wpc = "after_item" /\ hist.failed = idx /\ ~stop_ev) => hist.slept

\* C20: a step of the GUI thread inside stop() or skip() only sets a flag: it leaves
\* ff_proc as it is, holds no handle read from ff_proc and terminates no process.
C20_HandleOwnedByWorker ==
    [][ gpc' # gpc =>
          /\ ff_proc' = ff_proc
          /\ gproc' = NoProc
          /\ alive' = alive ]_vars

\* C21: once the stop flag is set, no step of the worker takes an entry from the prefetch
\* cache and no step launches a process; the prefetch thread is left to run to its end.
C21_NothingConsumedAfterStop ==
    [][ stop_ev => /\ hist'.used = hist.used
                   /\ alive' \subseteq alive ]_vars

\* C22: a prefetch thread whose resolution failed writes None only, and when it ends all
\* five cache fields are None; a run_one_video call that then checks the cache for that
\* identifier takes nothing from it and resolves the item itself.
CacheEmpty ==
    /\ pf_video_id = None /\ pf_title = None /\ pf_date = None
    /\ pf_vurl = None /\ pf_aurl = None
Clearing == ppc \in {"p_c_id", "p_c_title", "p_c_date", "p_c_vurl", "p_c_aurl"}
C22_FailedPrefetchLeavesCacheEmpty ==
    [][ /\ ((Clearing /\ ppc' # ppc) \/ (ppc = "dead" /\ ppc' = "dead")) =>
              /\ pf_video_id' \in {pf_video_id, None} /\ pf_title' \in {pf_title, None}
              /\ pf_date' \in {pf_date, None} /\ pf_vurl' \in {pf_vurl, None}
              /\ pf_aurl' \in {pf_aurl, None}
        /\ (ppc = "p_c_aurl" /\ ppc' # ppc) => CacheEmpty'
        /\ (wpc = "rov_check_id" /\ wpc' # wpc /\ CacheEmpty) =>
              /\ wpc' = "rov_resolve"
              /\ hist'.used = hist.used ]_vars
C22_Witness ==
    /\ wpc = "rov_check_id" /\ ppc = "dead" /\ p_vid = vid /\ hist.pgen = << vid >>
    /\ hist.used = << >> /\ CacheEmpty /\ fetches = 1 /\ idx = 2

\* C23: while the item at a position that has a successor is handled (cache check,
\* resolution, launch), the last prefetch requested is the one for the successor; at the
\* last position no request is made, and a request is made only right before the cache
\* check of the current item.
Handling == wpc \notin {"run_start", "select_encoder", "preflight", "pre_fallback",
                        "loop_top", "fetch", "backoff", "for_top", "prefetch_call",
                        "pass_end", "emit_stopped", "done"}
C23_PrefetchBeforeCurrent ==
    [][ /\ (Handling' /\ idx' < Len(ids')) => lastPrime' = ids'[idx' + 1]
        /\ (lastPrime' # lastPrime \/ hist'.pgen # hist.pgen) =>
              /\ wpc = "prefetch_call" /\ wpc' = "rov_check_id"
              /\ idx < Len(ids) /\ lastPrime' = ids[idx + 1]
        /\ (wpc = "prefetch_call" /\ wpc' # wpc /\ idx = Len(ids)) =>
              /\ lastPrime' = lastPrime /\ hist'.pgen = hist.pgen /\ ppc' = ppc
        /\ (wpc' = "rov_check_id" /\ wpc # wpc') => wpc = "prefetch_call" ]_vars
C23_Witness ==
    /\ ids = << "a", "b", "c" >> /\ idx = 3 /\ wpc = "rov_launch"
    /\ lastPrime = "c" /\ hist.pgen = << "b", "c" >>

\* C24: an exception raised by the playlist fetch is caught in the loop of run: the run
\* does not end, the worker waits at most 30 one-second ticks, each taken only while stop
\* is not set, and then goes back to the head of the loop, where it fetches again unless
\* stop is set.
C24_FetchErrorBackoff ==
    [][ /\ hist'.wait = "error" => wpc' \in {"backoff", "loop_top"} /\ finished' = 0
        /\ (hist.wait # "error" /\ hist'.wait = "error") =>
              /\ wpc = "fetch" /\ wpc' = "backoff" /\ tick' = 0
              /\ ids' = ids /\ idx' = idx
        /\ (hist.wait = "error" /\ wpc = "backoff" /\ tick' # tick) =>
              ~stop_ev /\ tick < BackoffTicks /\ tick' = tick + 1 /\ wpc' = "backoff"
        /\ (hist.wait = "error" /\ wpc = "backoff" /\ wpc' # wpc) =>
              (stop_ev \/ tick = BackoffTicks) /\ wpc' = "loop_top"
        /\ (hist.wait = "error" /\ wpc = "loop_top" /\ wpc' # wpc) =>
              wpc' = (IF stop_ev THEN "emit_stopped" ELSE "fetch") ]_vars
C24_Witness ==
    /\ wpc = "loop_top" /\ hist.wait = "error" /\ tick = BackoffTicks /\ ~stop_ev
    /\ Started /\ finished = 0

\* C25: when the for loop has handled the last identifier and stop is not set, the worker
\* goes back to the head of the while loop and fetches the playlist before it handles
\* another item: a pass starts at position 1 only out of a fetch, over the list that
\* fetch returned, and the list changes nowhere else.
C25_EachPassOverFreshList ==
    [][ /\ (wpc = "pass_end" /\ wpc' # wpc) => wpc' = "loop_top" /\ ids' = ids /\ idx' = idx
        /\ (wpc = "loop_top" /\ wpc' # wpc) =>
              wpc' = (IF stop_ev THEN "emit_stopped" ELSE "fetch")
        /\ (wpc' = "for_top" /\ wpc # wpc' /\ idx' = 1) =>
              /\ wpc = "fetch" /\ fetches' = fetches + 1
              /\ IsPerm(ids', fetched') /\ visited' = << >>
        /\ (ids' # ids \/ fetched' # fetched) => wpc = "fetch" /\ fetches' = fetches + 1
        /\ idx' # idx => (wpc = "fetch" /\ idx' = 1) \/ (wpc = "after_item" /\ idx' = idx + 1)
        /\ (wpc' = "prefetch_call" /\ wpc # wpc') => idx' \in 1..Len(ids') ]_vars
C25_Witness ==
    /\ fetches = 2 /\ ids = << "b", "a" >> /\ idx = 1 /\ wpc = "rov_launch"
    /\ hist.pgen[1] = "b" /\ visited = << "b" >>

\* C26: _terminate_ff_proc applies terminate, kill, the tree-kill and the kill by name in
\* this order: terminate only when the poll at entry found a running process, each later
\* rung only when the poll after the rung before it found the process still running, the
\* last two only on Windows; nothing is applied when there is no process or it has exited; a process that
\* is still running when the call returns has had every rung of the platform applied.
C26_GraduatedTermination ==
    [][ /\ ladder'.steps # ladder.steps =>
              /\ ladder.present
              /\ ladder.running \/ ladder.pc \in {"terminate", "name"}
              /\ Len(ladder.steps) < Len(Rungs)
              /\ ladder'.steps = Append(ladder.steps, Rungs[Len(ladder.steps) + 1])
              /\ Len(ladder.steps) >= 2 => ladder.win
        /\ (ladder.pc = "read" /\ ladder'.pc = "terminate") => ladder.present /\ ladder.running
        /\ (ladder.pc = "read" /\ ladder'.pc = "done") => ~(ladder.present /\ ladder.running)
        /\ (ladder.pc # "name" /\ ladder'.pc = "name") =>
              ladder.pc = "poll" /\ ladder.win /\ ladder.running /\ Len(ladder.steps) = 3
        /\ ladder'.running => ladder.running
        /\ (ladder'.pc = "done" /\ ladder'.running) =>
              ladder'.steps = (IF ladder.win THEN Rungs ELSE SubSeq(Rungs, 1, 2)) ]_vars
C26_Witness ==
    /\ ladder.pc = "done" /\ ladder.win /\ ladder.dies = "name" /\ ~ladder.running
    /\ ladder.steps = Rungs

\* C28: select_encoder probes h264_nvenc, h264_qsv, h264_amf in this order and stops at the
\* first probe that succeeds; cfg then holds that codec with its name, pixel format and
\* flags; when no probe succeeds, or ffmpeg was not located (no probe is run then), cfg
\* holds libx264 with "-preset veryfast".
Selected == "probe" \in Range(hist.phases)
C28_FirstCodecWins ==
    Selected =>
        LET acc == { i \in 1..Len(Encoders) : Encoders[i] \in probes }
            first == CHOOSE i \in acc : \A j \in acc : i <= j
        IN  /\ IF ~ffmpeg_path THEN probed = << >> /\ encoder = "libx264"
               ELSE IF acc = {} THEN probed = Encoders /\ encoder = "libx264"
               ELSE probed = SubSeq(Encoders, 1, first) /\ encoder = Encoders[first]
            /\ encoder = "libx264" =>
                  /\ encoder_name = "CPU x264" /\ pix_fmt = "yuv420p"
                  /\ extra_venc_flags = << "-preset", "veryfast" >>
            /\ encoder = "h264_nvenc" =>
                  /\ encoder_name = "NVIDIA NVENC" /\ pix_fmt = "yuv420p"
                  /\ SubSeq(extra_venc_flags, 1, 4) = << "-preset", "p4", "-rc", "cbr_hq" >>
                  /\ Len(extra_venc_flags) = 12
            /\ encoder = "h264_qsv" =>
                  /\ encoder_name = "Intel Quick Sync" /\ pix_fmt = "nv12"
                  /\ extra_venc_flags = << "-look_ahead", "1" >>
            /\ encoder = "h264_amf" =>
                  /\ encoder_name = "AMD AMF" /\ pix_fmt = "yuv420p"
                  /\ extra_venc_flags = << "-rc", "cbr", "-quality", "quality",
                                           "-usage", "transcoding" >>
C28_Witness ==
    /\ Selected /\ ffmpeg_path /\ probes = {"h264_qsv", "h264_amf"}
    /\ probed = << "h264_nvenc", "h264_qsv" >> /\ encoder = "h264_qsv" /\ pix_fmt = "nv12"

\* C29: the encoder selection (codec, name, pixel format, flags) changes only in the
\* select_encoder step, which happens once and before any preflight command; every
\* command built afterwards, preflight or stream, carries the selection cfg still holds.
C29_EncoderFixedAfterSelection ==
    [][ /\ encVars' # encVars =>
             /\ wpc \in {"select_encoder", "test_select"}
             /\ hist.phases \in { << >>, << "binaries" >> }
             /\ hist.codecs = {}
        /\ \A c \in hist'.codecs :
             /\ c.encoder = encoder' /\ c.pix_fmt = pix_fmt'
             /\ c.extra_venc_flags = extra_venc_flags'
             /\ Selected
        /\ hist.codecs \subseteq hist'.codecs ]_vars
C29_Witness ==
    /\ encoder = "h264_qsv" /\ encoder_name = "Intel Quick Sync"
    /\ \E a, b \in hist.codecs :
         /\ a.cmd = "preflight" /\ b.cmd = "stream"
         /\ a.pix_fmt = "nv12" /\ b.pix_fmt = "nv12"
         /\ b.extra_venc_flags = << "-look_ahead", "1" >>
    /\ fetches = 2

\* C30: get_stream_urls makes its yt-dlp calls in the fixed order HLS, bv*+ba/best,
\* best[height<=?1080], worst[height>=480], best, no format; it returns what the first
\* usable call printed and makes no call after it; when no call is usable it raises
\* "No playable formats" and returns nothing.
Usable(c) ==
    LET lines == IF c.o.raises \/ c.o.rc # 0 THEN << >> ELSE c.o.lines
        hls == \E i \in 1..Len(lines) : lines[i] \in M3u8Lines
    IN  CASE c.f = "hls" -> hls
          [] c.f = ""    -> lines # << >>
          [] OTHER       -> lines # << >> /\ ~hls
C30_FirstUsableStrategyWins ==
    LET n == Len(urls.calls) IN
    /\ n <= Len(Strategies)
    /\ \A i \in 1..n : urls.calls[i].f = Strategies[i]
    /\ \A i \in 1..(n - 1) : ~Usable(urls.calls[i])
    /\ urls.pc = "returned" =>
         /\ n >= 1 /\ Usable(urls.calls[n])
         /\ urls.result.kind = "return"
         /\ urls.result.video \in Range(urls.calls[n].o.lines)
         /\ urls.result.audio \in Range(urls.calls[n].o.lines) \cup {None}
    /\ urls.pc = "raised" /\ ytdlp_path =>
         /\ n = Len(Strategies) /\ ~Usable(urls.calls[n])
         /\ urls.result = [kind |-> "raise", video |-> "No playable formats",
                           audio |-> None]
    /\ urls.pc \in {"hls", "fmt", "plain"} => urls.result.kind = "none"
C30_Witness ==
    /\ urls.pc = "returned" /\ Len(urls.calls) = 4
    /\ urls.calls[1].o.lines = << "v.mp4" >> /\ urls.calls[1].o.rc = 0
    /\ urls.calls[2].o.raises
    /\ urls.calls[3].o.lines = << "v.m3u8" >> /\ urls.calls[3].o.rc = 0
    /\ urls.result = [kind |-> "return", video |-> "v.mp4", audio |-> "a.m4a"]
C30_WitnessRaise ==
    /\ urls.pc = "raised" /\ Len(urls.calls) = 6 /\ urls.result.kind = "raise"

\* C27 as stated: a stop() or skip() call after the first one leaves the flags as they
\* were and ends no process, whenever it is made.
C27_RepeatedCallsChangeNothing ==
    [][ /\ (skips >= 1 /\ skips' = skips + 1) => skip_ev' = skip_ev
        /\ (hist.again # "none" /\ gpc \in {"term", "kill"}) => alive' = alive
        /\ (hist.stop_calls = 1 /\ hist'.stop_calls = 2) =>
              stop_ev' = stop_ev /\ alive' = alive ]_vars

\* C27, amended: setting a flag that is set changes nothing. The second stop() call finds
\* the stop flag set and the run over, and changes no flag, process or signal; a skip()
\* call that finds the skip flag set leaves both flags and every process as they are in
\* its set(); the stop flag, once set, stays set.
C27_SetWhileSetChangesNothing ==
    [][ /\ (skips' = skips + 1 /\ skip_ev) =>
              skip_ev' /\ stop_ev' = stop_ev /\ alive' = alive
        /\ (hist.stop_calls = 1 /\ hist'.stop_calls = 2) =>
              /\ stop_ev /\ stop_ev' /\ skip_ev' = skip_ev /\ alive' = alive
              /\ status' = status /\ finished' = finished /\ wpc' = wpc
        /\ stop_ev => stop_ev' ]_vars
C27_Witness ==
    /\ hist.stop_calls = 2 /\ stop_ev /\ skips = 2 /\ hist.again = "set" /\ wpc = "done"

\* C31: a location that get_stream_urls returns from any call after the HLS call is
\* never a .m3u8 URL.
C31_NoManifestFromLaterStrategies ==
    (urls.pc = "returned" /\ Len(urls.calls) > 1) =>
        /\ urls.result.video \notin M3u8Lines
        /\ urls.result.audio \notin M3u8Lines

\* C36: fmt_yt_date returns the day before the upload date when upload_date is an 8-digit
\* calendar date (decimal digits of any script, as int() reads them) that has a day
\* before it; otherwise the day before the UTC day of
\* release_ts, or of timestamp when release_ts is absent or zero; otherwise None. The
\* text is "Mon D, YYYY" and never a placeholder.
LastDay(y, m) ==
    CASE m \in {4, 6, 9, 11} -> 30
      [] m = 2 -> IF (y % 4 = 0 /\ y % 100 # 0) \/ y % 400 = 0 THEN 29 ELSE 28
      [] OTHER -> 31
PrevDay(dt) ==
    IF dt.day > 1 THEN [dt EXCEPT !.day = @ - 1]
    ELSE IF dt.month > 1
         THEN [dt EXCEPT !.month = @ - 1, !.day = LastDay(dt.year, dt.month - 1)]
         ELSE [year |-> dt.year - 1, month |-> 12, day |-> 31]
YearLen(y) == IF LastDay(y, 2) = 29 THEN 366 ELSE 365
RECURSIVE DayOfYear(_, _, _)
DayOfYear(y, m, n) ==
    IF n >= LastDay(y, m) THEN DayOfYear(y, m + 1, n - LastDay(y, m))
    ELSE [year |-> y, month |-> m, day |-> n + 1]
RECURSIVE DayFrom(_, _)
DayFrom(y, n) == IF n >= YearLen(y) THEN DayFrom(y + 1, n - YearLen(y)) ELSE DayOfYear(y, 1, n)
UploadDay(u) ==
    [year |-> int_of(SubSeq(u[1], 1, 4)), month |-> int_of(SubSeq(u[1], 5, 6)),
     day |-> int_of(SubSeq(u[1], 7, 8))]
UploadUsable(u) ==
    /\ u # << >> /\ Len(u[1]) = 8
    /\ \A i \in 1..8 : u[1][i] \in DecimalChars
    /\ LET dt == UploadDay(u)
       IN  /\ dt.year >= 1 /\ dt.month \in 1..12 /\ dt.day \in 1..LastDay(dt.year, dt.month)
           /\ dt # [year |-> 1, month |-> 1, day |-> 1]
Present(ts) == ts # << >> /\ ts[1] # 0
ExpectedDate(u, t, r) ==
    IF UploadUsable(u) THEN Some(PrevDay(UploadDay(u)))
    ELSE IF Present(r) THEN Some(PrevDay(DayFrom(1970, r[1] \div 86400)))
    ELSE IF Present(t) THEN Some(PrevDay(DayFrom(1970, t[1] \div 86400)))
    ELSE << >>
C36_DateFromUploadDateElseTimestamp ==
    (call.fn = "fmt_yt_date" /\ call.pc = "returned") =>
        LET e == ExpectedDate(call.upload_date, call.timestamp, call.release_ts)
        IN  IF e = << >> THEN call.result = << >>
            ELSE call.result = Some(strftime(e[1]))
C36_Witness ==
    /\ call.fn = "fmt_yt_date" /\ call.pc = "returned"
    /\ call.upload_date = Some(<< "2", "0", "2", "4", "1", "3", "0", "1" >>)
    /\ call.release_ts = Some(1709251200) /\ call.timestamp = Some(86400)
    /\ call.result = Some(<< "F", "e", "b", " ", "2", "9", ",", " ", "2", "0", "2", "4" >>)

\* C32: get_metadata never raises: whatever the yt-dlp invocations do, it returns a title.
C32_MetadataNeverRaises ==
    call.fn = "get_metadata" =>
        /\ call.pc # "raised"
        /\ call.pc = "returned" => call.result.kind = "return"

\* C33: preflight_rtmp returns True only if one of its test pushes exited with status
\* zero; a push that timed out or whose invocation raised counts as failed, like a
\* non-zero exit, and the fallback push is made exactly after a failed push to an rtmp URL.
C33_PreflightTrueOnlyOnZeroExit ==
    wpc = "test_done" =>
        /\ Len(hist.outcomes) \in 1..2
        /\ hist.tested = << hist.outcomes[Len(hist.outcomes)] = "exit0" >>
        /\ Len(hist.outcomes) = 2 => hist.outcomes[1] # "exit0"
        /\ hist.outcomes[1] \in {"timeout", "exception", "exit1"} =>
              /\ hist.pre1 = "failed"
              /\ Len(hist.outcomes) = 2 <=> Len(pushes) = 2
C33_Witness ==
    /\ wpc = "test_done" /\ hist.outcomes = << "timeout", "exception" >>
    /\ hist.tested = << FALSE >> /\ Len(pushes) = 2

\* C34: with the overlay enabled, when an item's process is launched the overlay text of
\* this item has been written, and its title and date come from the resolution of the
\* item whose video location is passed to the transcoder.
C34_OverlayOfLaunchedItem ==
    (wpc = "rov_popen" /\ overlay_titles) =>
        /\ loc.overlay_text = overlay_text(meta.title, meta.date)
        /\ loc.title = loc.vurl
        /\ loc.pretty_date = loc.vurl

\* C35: every rung the termination sequence applies is logged, later rungs at a higher
\* severity than earlier ones.
Severity == << "INFO", "WARN", "ERROR" >>
SeverityRank(l) == CHOOSE i \in 1..Len(Severity) : Severity[i] = l
C35_EveryRungLogged ==
    /\ Len(ladder.log) = Len(ladder.steps)
    /\ \A i, j \in 1..Len(ladder.log) :
         i < j => SeverityRank(ladder.log[i]) <= SeverityRank(ladder.log[j])

\* C37: when the run has emitted finished, no process it launched is alive.
C37_NoProcessAtFinished ==
    (wpc = "done" /\ finished >= 1) => alive = {}

\* C38: once stop is set after the loop of run() has started, the run eventually emits
\* status Stopped and then finished, when the worker thread is scheduled and the child
\* whose output it reads to the end exits (the fairness of SpecLive); a kill that
\* fails and a GUI thread that never runs do not prevent it.
C38_StopLeadsToStopped ==
    (stop_ev /\ Started) ~>
        (wpc = "done" /\ finished = 1 /\ status[Len(status)] = "Stopped")
C38_Witness ==
    /\ stop_ev /\ Started /\ wpc = "done" /\ finished = 1
    /\ status[Len(status)] = "Stopped" /\ fetches = MaxFetches + 1

\* C39: a skip requested while the worker resolves an item or cools down after one, with
\* no process of the run alive, terminates no process: neither skip() on the GUI thread
\* nor the worker enters the termination of a process because of it.
C39_EarlySkipDiscarded ==
    (skips = 1 /\ hist.skipAt = "early" /\ hist.skipHit = NoProc /\ ~stop_ev) =>
        /\ gpc \notin {"term", "kill", "tree", "poll", "name"}
        /\ wpc \notin {"wt_read", "wt_term", "wt_kill", "wt_tree", "wt_poll", "wt_name"}
\* C40: at most one StreamWorker run is active at any time. A Start press while
\* streaming changes nothing of the worker or of the window; a worker is created only
\* when the run of the worker before it has returned and its finished signal was
\* handled (the streaming flag is down), and it comes with both flags clear and the
\* streaming flag up; the streaming flag goes down only when the finished signal of
\* a run that has returned is handled.
C40_OneRunAtATime ==
    [][ /\ (hist'.workers # hist.workers) =>
              /\ hist'.workers = hist.workers + 1
              /\ ~streaming /\ wpc = "done" /\ finished >= 1
              /\ streaming' /\ ~stop_ev' /\ ~skip_ev' /\ wpc' = "run_start"
        /\ (hist'.ignored /\ ~hist.ignored) =>
              /\ streaming /\ streaming'
              /\ UNCHANGED << stop_ev, skip_ev, ff_proc, wpc, loc, wproc, cfgVars,
                              cacheVars, loopVars, guiVars, alive, finished >>
        /\ (streaming /\ ~streaming') => (wpc = "done" /\ finished >= 1 /\ wpc' = "done")
        /\ (~streaming /\ streaming') => hist'.workers = hist.workers + 1
        /\ (wpc # "done") => streaming ]_vars
\* a second worker streams, Skip was pressed once and a Start press was ignored
C40_Witness ==
    /\ hist.workers = 2 /\ hist.ignored /\ skips = 1
    /\ streaming /\ ~stop_ev /\ wpc = "rov_poll"

====
